---------------------------- MODULE Spec2Model ----------------------------
(***************************************************************************)
(* TimeMagic: a Telegram secretary bot.  Free text is classified as an     *)
(* event, a task or a note (core/parser.py), events are checked against    *)
(* the user's stored events before insertion (core/service.py), and a      *)
(* rejected event opens a per-user pending conflict that the next text     *)
(* message resolves (adapters/telegram_bot.py).                            *)
(*                                                                         *)
(* Representation.                                                         *)
(*  - A datetime is an integer number of minutes since 2024-01-01 00:00    *)
(*    (a Monday); Python's None is NoneDT.                                 *)
(*  - A text is a sequence of whitespace-separated tokens.  A token is a   *)
(*    record [k, w, a, b, c]: k = "w" a word w (Russian words are written  *)
(*    in Latin transliteration), k = "n" the number a, k = "date" the      *)
(*    numeric date a.b[.c] (c = NoYear when the year is omitted),          *)
(*    k = "time" the clock time a:b with a <= 23 and b <= 59, k = "nl" a   *)
(*    line break.  The regular expressions of the source are matched on    *)
(*    tokens.                                                              *)
(***************************************************************************)
EXTENDS Integers, Sequences, FiniteSets, TLC

VARIABLES items, PENDING_CONFLICTS, now, out

vars == <<items, PENDING_CONFLICTS, now, out>>

-----------------------------------------------------------------------------
(* Calendar arithmetic of Python's datetime, date and timedelta.           *)

NoneDT == -1

DayMinutes == 24 * 60

IsLeap(y) == (y % 4 = 0 /\ y % 100 # 0) \/ y % 400 = 0

YearLen(y) == IF IsLeap(y) THEN 366 ELSE 365

DaysInMonth(y, m) ==
    IF m = 2 THEN (IF IsLeap(y) THEN 29 ELSE 28)
    ELSE IF m \in {4, 6, 9, 11} THEN 30 ELSE 31

\* datetime(year, month, day) raises ValueError unless this holds.
ValidDate(y, m, d) ==
    /\ y \in 1..9999
    /\ m \in 1..12
    /\ d \in 1..DaysInMonth(y, m)

RECURSIVE DaysBeforeMonth(_, _)
DaysBeforeMonth(y, m) ==
    IF m <= 1 THEN 0 ELSE DaysBeforeMonth(y, m - 1) + DaysInMonth(y, m - 1)

RECURSIVE DaysBeforeYear(_)
DaysBeforeYear(y) ==
    IF y = 2024 THEN 0
    ELSE IF y > 2024 THEN DaysBeforeYear(y - 1) + YearLen(y - 1)
    ELSE DaysBeforeYear(y + 1) - YearLen(y)

\* The day number of a valid date (0 = 2024-01-01).
ToOrdinal(y, m, d) == DaysBeforeYear(y) + DaysBeforeMonth(y, m) + (d - 1)

\* datetime.combine(date, time(h, mi))
Combine(ord, h, mi) == ord * DayMinutes + h * 60 + mi

\* dt.date(), dt.hour, dt.minute
DateOfDT(dt) == dt \div DayMinutes

HourOf(dt) == (dt % DayMinutes) \div 60

MinuteOf(dt) == dt % 60

\* [y, r]: the year of day number o and the day's offset in it, counted from year y.
RECURSIVE YearFrom(_, _)
YearFrom(o, y) ==
    IF o < 0 THEN YearFrom(o + YearLen(y - 1), y - 1)
    ELSE IF o >= YearLen(y) THEN YearFrom(o - YearLen(y), y + 1)
    ELSE [y |-> y, r |-> o]

\* [m, d]: month and day of offset r in year y, counted from month m.
RECURSIVE MonthFrom(_, _, _)
MonthFrom(y, r, m) ==
    IF r < DaysInMonth(y, m) THEN [m |-> m, d |-> r + 1]
    ELSE MonthFrom(y, r - DaysInMonth(y, m), m + 1)

\* date.year, date.month, date.day of day number o
YMD(o) ==
    LET yr == YearFrom(o, 2024)
        md == MonthFrom(yr.y, yr.r, 1)
    IN  [y |-> yr.y, m |-> md.m, d |-> md.d]

YearOfOrd(o) == YMD(o).y

MonthOfOrd(o) == YMD(o).m

DayOfOrd(o) == YMD(o).d

\* date.weekday(): Monday is 0.
Weekday(o) == o % 7

-----------------------------------------------------------------------------
(* Tokens.                                                                 *)

NoYear == -1

W(s) == [k |-> "w", w |-> s, a |-> 0, b |-> 0, c |-> 0]

N(n) == [k |-> "n", w |-> "", a |-> n, b |-> 0, c |-> 0]

D(d, m, y) == [k |-> "date", w |-> "", a |-> d, b |-> m, c |-> y]

T(h, mi) == [k |-> "time", w |-> "", a |-> h, b |-> mi, c |-> 0]

NL == [k |-> "nl", w |-> "", a |-> 0, b |-> 0, c |-> 0]

IsWord(tok, s) == tok.k = "w" /\ tok.w = s

IsWordIn(tok, S) == tok.k = "w" /\ tok.w \in S

\* The least position of the set S of positions (0 when S is empty): re.search
\* returns the leftmost match.
FirstPos(S) == IF S = {} THEN 0 ELSE CHOOSE i \in S : \A j \in S : i <= j

\* text with the tokens at positions i..j removed.
RemoveRange(text, i, j) ==
    SubSeq(text, 1, i - 1) \o SubSeq(text, j + 1, Len(text))

RECURSIVE RemoveAt(_, _)
RemoveAt(text, S) ==
    IF text = <<>> THEN <<>>
    ELSE LET n == Len(text)
             front == RemoveAt(SubSeq(text, 1, n - 1), S)
         IN  IF n \in S THEN front ELSE Append(front, text[n])

-----------------------------------------------------------------------------
(* core/parser.py: keyword tables.                                         *)

\* Words of the vocabulary that contain one of EVENT_KEYWORDS as a substring.
EVENT_KEYWORDS == {"vstrecha", "vstrechi", "sozvon", "zvonok", "demo"}

\* Words of the vocabulary that start with one of TASK_KEYWORDS.
TASK_KEYWORDS == {"sdelat", "kupit", "napisat", "pozvonit"}

\* The weekday alternatives of the "v/vo <weekday>" and leading-weekday patterns.
EventDowWords ==
    {"ponedelnik", "vtornik", "sreda", "sredu", "chetverg", "pyatnitsa", "pyatnitsu",
     "subbotu", "subboty", "voskresenye", "pn", "vt", "sr", "cht", "pt", "sb", "vs"}

\* DOW_MAP_EVENT.get(word): NoneDT for a word the table does not hold.
DOW_MAP_EVENT(w) ==
    CASE w \in {"ponedelnik", "pn"} -> 0
      [] w \in {"vtornik", "vt"} -> 1
      [] w \in {"sreda", "sredu", "sr"} -> 2
      [] w \in {"chetverg", "cht"} -> 3
      [] w \in {"pyatnitsa", "pyatnitsu", "pt"} -> 4
      [] w \in {"subbota", "subbotu", "sb"} -> 5
      [] w \in {"voskresenye", "vs"} -> 6
      [] OTHER -> NoneDT

\* The deadline pattern "do <weekday>" has no closing word boundary: it matches a
\* word that starts with one of its alternatives, and the matched alternative is
\* looked up in DOW_MAP_DUE.  NoneDT when the word starts with none of them.
DOW_MAP_DUE(w) ==
    CASE w \in {"ponedelnika", "pn"} -> 0
      [] w \in {"vtornika", "vt"} -> 1
      [] w \in {"sredy", "sr", "sredu", "sreda"} -> 2
      [] w \in {"chetverga", "cht"} -> 3
      [] w \in {"pyatnitsy", "pt"} -> 4
      [] w \in {"subboty", "sb"} -> 5
      [] w \in {"voskresenya", "vs", "vstrechi", "vstrecha"} -> 6
      [] OTHER -> NoneDT

\* PART_OF_DAY in dictionary order, as minutes after midnight.
PART_OF_DAY ==
    << [w |-> "utrom", t |-> 10 * 60], [w |-> "dnem", t |-> 14 * 60],
       [w |-> "vecherom", t |-> 19 * 60], [w |-> "nochyu", t |-> 23 * 60] >>

DurLeadWords == {"na", "prodlitsya", "prodolzhitsya", "dlitelnost"}

HourUnitWords == {"chas", "chasa", "chasov", "ch"}

MinUnitWords == {"minut", "minuty", "minuta", "min"}

HasWord(text, S) == \E i \in 1..Len(text) : IsWordIn(text[i], S)

-----------------------------------------------------------------------------
(* core/parser.py: helpers.  An operator whose name is not a name of the   *)
(* source is one step of the source function named in the comment before   *)
(* it.                                                                     *)

\* _next_weekday without the wrap of 0 days to 7.
_next_weekday_NoWrap(dt, target_weekday) ==
    dt + ((target_weekday - Weekday(DateOfDT(dt))) % 7) * DayMinutes

_next_weekday(dt, target_weekday) ==
    LET days_ahead == (target_weekday - Weekday(DateOfDT(dt))) % 7
    IN  dt + (IF days_ahead = 0 THEN 7 ELSE days_ahead) * DayMinutes

\* re.sub(r"\bv$", "", s): a dangling last word "v" is dropped.
_remove_trailing_v(s) ==
    IF s # <<>> /\ IsWord(s[Len(s)], "v") THEN SubSeq(s, 1, Len(s) - 1) ELSE s

\* DURATION_PATTERN matches at position i: lead word, number, hour unit.
DurHoursAt(text, i) ==
    /\ i + 2 <= Len(text)
    /\ IsWordIn(text[i], DurLeadWords)
    /\ text[i + 1].k = "n"
    /\ IsWordIn(text[i + 2], HourUnitWords)

\* The optional "<number> <minute unit>" tail of DURATION_PATTERN after position j.
MinsTailAt(text, j) ==
    /\ j + 2 <= Len(text)
    /\ text[j + 1].k = "n"
    /\ IsWordIn(text[j + 2], MinUnitWords)

\* DURATION_MINS_ONLY_PATTERN matches at position i.
DurMinsAt(text, i) ==
    /\ i + 2 <= Len(text)
    /\ IsWordIn(text[i], DurLeadWords)
    /\ text[i + 1].k = "n"
    /\ IsWordIn(text[i + 2], MinUnitWords)

\* DurationMatch that returns the text with the matched phrase left in it.
DurationMatch_KeepsText(text, i, i2) ==
    IF i # 0
    THEN [dur |-> text[i + 1].a * 60 + (IF MinsTailAt(text, i + 2) THEN text[i + 4].a ELSE 0),
          text |-> text]
    ELSE IF i2 # 0
    THEN [dur |-> text[i2 + 1].a, text |-> text]
    ELSE [dur |-> NoneDT, text |-> text]

\* parse_duration, given the leftmost match i of DURATION_PATTERN and i2 of
\* DURATION_MINS_ONLY_PATTERN.
DurationMatch(text, i, i2) ==
    IF i # 0
    THEN [dur |-> text[i + 1].a * 60 + (IF MinsTailAt(text, i + 2) THEN text[i + 4].a ELSE 0),
          text |-> RemoveRange(text, i, IF MinsTailAt(text, i + 2) THEN i + 4 ELSE i + 2)]
    ELSE IF i2 # 0
    THEN [dur |-> text[i2 + 1].a, text |-> RemoveRange(text, i2, i2 + 2)]
    ELSE [dur |-> NoneDT, text |-> text]

\* [dur, text]: the timedelta in minutes (NoneDT when no phrase matches) and the
\* text without the matched phrase.
parse_duration(text) ==
    DurationMatch(text, FirstPos({p \in 1..Len(text) : DurHoursAt(text, p)}),
                  FirstPos({p \in 1..Len(text) : DurMinsAt(text, p)}))

\* Minutes of a unit word of parse_relative.  The unit "den" is matched by the
\* pattern but by none of the startswith tests that follow.
RelUnitMinutes(w) ==
    CASE w \in {"minut", "minutu", "minuty", "min"} -> 1
      [] w \in {"chas", "chasa", "chasov", "ch"} -> 60
      [] w \in {"dnya", "dney", "dni"} -> DayMinutes
      [] w \in {"nedelyu", "nedeli"} -> 7 * DayMinutes
      [] OTHER -> NoneDT

RelAt(text, i) ==
    /\ i + 2 <= Len(text)
    /\ IsWord(text[i], "cherez")
    /\ text[i + 1].k = "n"
    /\ IsWordIn(text[i + 2], {"minut", "minutu", "minuty", "min", "chas", "chasa",
                              "chasov", "ch", "dnya", "dney", "dni", "den",
                              "nedelyu", "nedeli"})

\* (start, start + 30 minutes), or (None, None).
SlotFrom(start) ==
    IF start = NoneDT THEN [start |-> NoneDT, end |-> NoneDT]
    ELSE [start |-> start, end |-> start + 30]

\* parse_relative, given the leftmost match i of its pattern.
RelativeMatch(text, dt, i) ==
    IF i = 0 \/ RelUnitMinutes(text[i + 2].w) = NoneDT
    THEN SlotFrom(NoneDT)
    ELSE SlotFrom(dt + text[i + 1].a * RelUnitMinutes(text[i + 2].w))

parse_relative(text, dt) ==
    RelativeMatch(text, dt, FirstPos({p \in 1..Len(text) : RelAt(text, p)}))

\* The year of a numeric date token: explicit (two digits map to 2000 + value),
\* or the year of today, rolled forward (where the caller rolls) when
\* (month, day) < (now.month, now.day).
DateTokenYear(tok, today, roll) ==
    IF tok.c # NoYear
    THEN (IF tok.c < 100 THEN 2000 + tok.c ELSE tok.c)
    ELSE IF roll /\ (tok.b < today.m \/ (tok.b = today.m /\ tok.a < today.d))
         THEN today.y + 1
         ELSE today.y

DowInAt(text, i) ==
    /\ i + 1 <= Len(text)
    /\ IsWordIn(text[i], {"v", "vo"})
    /\ IsWordIn(text[i + 1], EventDowWords)

\* RelativeDay without the branch of "zavtra".
RelativeDay_NoTomorrow(text, base_date) ==
    IF HasWord(text, {"poslezavtra"}) THEN [date |-> base_date + 2, set |-> TRUE]
    ELSE IF HasWord(text, {"segodnya"}) THEN [date |-> base_date, set |-> TRUE]
    ELSE [date |-> base_date, set |-> FALSE]

\* parse_absolute lines 171-179: segodnya / zavtra / poslezavtra.
RelativeDay(text, base_date) ==
    IF HasWord(text, {"poslezavtra"}) THEN [date |-> base_date + 2, set |-> TRUE]
    ELSE IF HasWord(text, {"zavtra"}) THEN [date |-> base_date + 1, set |-> TRUE]
    ELSE IF HasWord(text, {"segodnya"}) THEN [date |-> base_date, set |-> TRUE]
    ELSE [date |-> base_date, set |-> FALSE]

\* parse_absolute lines 181-192: "v/vo <weekday>", leftmost match at i.
DowInDay(text, dt, i, prev) ==
    IF i # 0 /\ DOW_MAP_EVENT(text[i + 1].w) # NoneDT
    THEN [date |-> DateOfDT(_next_weekday(dt, DOW_MAP_EVENT(text[i + 1].w))), set |-> TRUE]
    ELSE prev

\* parse_absolute lines 194-205: a weekday as the first word.
DowStartDay(text, dt, prev) ==
    IF text # <<>> /\ IsWordIn(text[1], EventDowWords) /\ DOW_MAP_EVENT(text[1].w) # NoneDT
    THEN [date |-> DateOfDT(_next_weekday(dt, DOW_MAP_EVENT(text[1].w))), set |-> TRUE]
    ELSE prev

\* NumericDay without the ValueError of datetime(year, month, day) caught.
NumericDay_Unchecked(text, today, i, prev) ==
    IF i # 0
    THEN [date |-> ToOrdinal(DateTokenYear(text[i], today, TRUE), text[i].b, text[i].a),
          set |-> TRUE]
    ELSE prev

\* NumericDay that keeps a date resolved earlier.
NumericDay_KeepsEarlier(text, today, i, prev) ==
    IF prev.set THEN prev
    ELSE IF i # 0 /\ ValidDate(DateTokenYear(text[i], today, TRUE), text[i].b, text[i].a)
    THEN [date |-> ToOrdinal(DateTokenYear(text[i], today, TRUE), text[i].b, text[i].a),
          set |-> TRUE]
    ELSE prev

\* parse_absolute lines 207-223: the first numeric date; an invalid one is skipped.
NumericDay(text, today, i, prev) ==
    IF i # 0 /\ ValidDate(DateTokenYear(text[i], today, TRUE), text[i].b, text[i].a)
    THEN [date |-> ToOrdinal(DateTokenYear(text[i], today, TRUE), text[i].b, text[i].a),
          set |-> TRUE]
    ELSE prev

\* parse_absolute lines 225-252: explicit time > part of day > 10:00 when a date is set.
AbsoluteStart(text, day, itime, ipart) ==
    IF itime # 0 THEN Combine(day.date, text[itime].a, text[itime].b)
    ELSE IF ipart # 0 THEN day.date * DayMinutes + PART_OF_DAY[ipart].t
    ELSE IF day.set THEN Combine(day.date, 10, 0)
    ELSE NoneDT

parse_absolute(text, dt) ==
    SlotFrom(AbsoluteStart(
        text,
        NumericDay(text, YMD(DateOfDT(dt)),
                   FirstPos({p \in 1..Len(text) : text[p].k = "date"}),
                   DowStartDay(text, dt,
                       DowInDay(text, dt, FirstPos({p \in 1..Len(text) : DowInAt(text, p)}),
                                RelativeDay(text, DateOfDT(dt))))),
        FirstPos({p \in 1..Len(text) : text[p].k = "time"}),
        FirstPos({p \in 1..Len(PART_OF_DAY) : HasWord(text, {PART_OF_DAY[p].w})})))

\* parse_datetime lines 258-261: the relative slot if there is one.
FirstSlot(rel, abs) == IF rel.start # NoneDT THEN rel ELSE abs

parse_datetime(text, dt) == FirstSlot(parse_relative(text, dt), parse_absolute(text, dt))

DueDowAt(text, i) ==
    /\ i + 1 <= Len(text)
    /\ IsWord(text[i], "do")
    /\ text[i + 1].k = "w"
    /\ DOW_MAP_DUE(text[i + 1].w) # NoneDT

DueDateAt(text, i) ==
    /\ i + 1 <= Len(text)
    /\ IsWord(text[i], "do")
    /\ text[i + 1].k = "date"

\* parse_due, given the leftmost "do <weekday>" at idow and "do <date>" at idate.
DueMatch(text, dt, idow, idate) ==
    IF idow # 0
    THEN Combine(DateOfDT(dt)
                   + ((DOW_MAP_DUE(text[idow + 1].w) - Weekday(DateOfDT(dt))) % 7),
                 23, 59)
    ELSE IF idate # 0
            /\ ValidDate(DateTokenYear(text[idate + 1], YMD(DateOfDT(dt)), TRUE),
                         text[idate + 1].b, text[idate + 1].a)
    THEN Combine(ToOrdinal(DateTokenYear(text[idate + 1], YMD(DateOfDT(dt)), TRUE),
                           text[idate + 1].b, text[idate + 1].a), 23, 59)
    ELSE NoneDT

parse_due(text, dt) ==
    DueMatch(text, dt, FirstPos({p \in 1..Len(text) : DueDowAt(text, p)}),
             FirstPos({p \in 1..Len(text) : DueDateAt(text, p)}))

\* The default title ("Bez nazvaniya").
Untitled == <<W("Bez"), W("nazvaniya")>>

OrUntitled(title) == IF title = <<>> THEN Untitled ELSE title

\* split_title_desc lines 320-322, given the position inl of the first line break.
SplitLines(text, inl) ==
    [title |-> OrUntitled(_remove_trailing_v(
                   parse_duration(IF inl = 0 THEN text ELSE SubSeq(text, 1, inl - 1)).text)),
     desc |-> IF inl = 0 THEN <<>> ELSE SubSeq(text, inl + 1, Len(text))]

\* [title, desc]: the first line without its duration phrase and dangling "v".
\* Titles of the vocabulary stay under the 120 characters after which the source
\* truncates.
split_title_desc(text) ==
    IF text = <<>> THEN [title |-> Untitled, desc |-> <<>>]
    ELSE SplitLines(text, FirstPos({p \in 1..Len(text) : text[p].k = "nl"}))

\* TaskWeekdayDue without the replace(hour=23, minute=59).
TaskWeekdayDue_KeepsTime(text, dt, i) ==
    IF i = 0 \/ DOW_MAP_EVENT(text[i + 1].w) = NoneDT THEN NoneDT
    ELSE _next_weekday(dt, DOW_MAP_EVENT(text[i + 1].w))

\* _extract_task_weekday_due, given the leftmost "v/vo <weekday>" at i.
TaskWeekdayDue(text, dt, i) ==
    IF i = 0 \/ DOW_MAP_EVENT(text[i + 1].w) = NoneDT THEN NoneDT
    ELSE Combine(DateOfDT(_next_weekday(dt, DOW_MAP_EVENT(text[i + 1].w))), 23, 59)

_extract_task_weekday_due(text, dt) ==
    TaskWeekdayDue(text, dt, FirstPos({p \in 1..Len(text) : DowInAt(text, p)}))

\* classify lines 387-394: a task verb with "v <weekday>" and no deadline.
TaskDue(text, dt, is_task_kw, due0) ==
    IF is_task_kw /\ due0 = NoneDT THEN _extract_task_weekday_due(text, dt) ELSE due0

\* ItemType with the event test ahead of the task test.
ItemType_EventFirst(is_event_kw, is_task_kw, start_dt, due_dt) ==
    IF is_event_kw \/ start_dt # NoneDT THEN "event"
    ELSE IF is_task_kw \/ due_dt # NoneDT THEN "task"
    ELSE "note"

\* classify lines 396-402: the type, first match wins.
ItemType(is_event_kw, is_task_kw, start_dt, due_dt) ==
    IF is_task_kw \/ due_dt # NoneDT THEN "task"
    ELSE IF is_event_kw \/ start_dt # NoneDT THEN "event"
    ELSE "note"

\* classify lines 404-410: a duration replaces the end of an event with a start.
Classified(item_type, slot, due_dt, dur) ==
    [type |-> item_type,
     start |-> slot.start,
     end |-> IF item_type = "event" /\ slot.start # NoneDT /\ dur # NoneDT /\ dur # 0
             THEN slot.start + dur
             ELSE slot.end,
     due |-> due_dt]

\* classify lines 381-402, given the slot and the deadline.
ClassifyWith(text, slot, due_dt) ==
    Classified(ItemType(HasWord(text, EVENT_KEYWORDS), HasWord(text, TASK_KEYWORDS),
                        slot.start, due_dt),
               slot, due_dt, parse_duration(text).dur)

\* [type, start, end, due]
classify(text, dt) ==
    IF text = <<>> THEN [type |-> "note", start |-> NoneDT, end |-> NoneDT, due |-> NoneDT]
    ELSE ClassifyWith(text, parse_datetime(text, dt),
                      TaskDue(text, dt, HasWord(text, TASK_KEYWORDS), parse_due(text, dt)))

-----------------------------------------------------------------------------
(* core/storage.py and core/service.py.                                    *)
(* The items table is the sequence of its rows in insertion order; a row's *)
(* id is its position.  Timestamps are stored as ISO-8601 text, modelled   *)
(* as <<year, month, day, hour, minute>>; SQL NULL is <<>>.                *)

NULL == <<>>

IsoOf(ymd, dt) == <<ymd.y, ymd.m, ymd.d, HourOf(dt), MinuteOf(dt)>>

\* datetime.isoformat()
isoformat(dt) == IsoOf(YMD(DateOfDT(dt)), dt)

IsoDateOf(ymd) == <<ymd.y, ymd.m, ymd.d>>

\* date.isoformat()
date_isoformat(o) == IsoDateOf(YMD(o))

\* datetime.fromisoformat(s) of a datetime or of a date
fromisoformat(s) ==
    Combine(ToOrdinal(s[1], s[2], s[3]),
            IF Len(s) >= 4 THEN s[4] ELSE 0,
            IF Len(s) >= 5 THEN s[5] ELSE 0)

\* The column value insert_item stores for an optional datetime.
IsoOrNull(dt) == IF dt # NoneDT THEN isoformat(dt) ELSE NULL

\* Item(...) as insert_item writes it: status "active", both flags 0.
Item(uid, type, title, desc, start_dt, end_dt, due_dt) ==
    [user_id |-> uid, type |-> type, title |-> title, description |-> desc,
     start_at |-> IsoOrNull(start_dt), end_at |-> IsoOrNull(end_dt),
     due_at |-> IsoOrNull(due_dt),
     status |-> "active", event_notified |-> 0, due_notified |-> 0]

\* insert_item as INSERT OR REPLACE on the last row.
insert_item_Replace(table, item) ==
    IF table = <<>> THEN <<item>> ELSE [table EXCEPT ![Len(table)] = item]

insert_item(table, item) == Append(table, item)

\* LoadedRow without the status test of the WHERE clause.
LoadedRow_AnyStatus(table, user_id, i) ==
    /\ table[i].user_id = user_id
    /\ table[i].type = "event"
    /\ table[i].start_at # NULL

\* LoadedRow without the user_id test of the WHERE clause.
LoadedRow_AnyUser(table, user_id, i) ==
    /\ table[i].type = "event"
    /\ table[i].status = "active"
    /\ table[i].start_at # NULL

\* The WHERE clause of _load_user_events on row i.
LoadedRow(table, user_id, i) ==
    /\ table[i].user_id = user_id
    /\ table[i].type = "event"
    /\ table[i].status = "active"
    /\ table[i].start_at # NULL

\* The selected rows among the first n, in table order.
RECURSIVE LoadUpTo(_, _, _)
LoadUpTo(table, user_id, n) ==
    IF n = 0 THEN <<>>
    ELSE IF LoadedRow(table, user_id, n)
    THEN Append(LoadUpTo(table, user_id, n - 1),
                [id |-> n, title |-> table[n].title,
                 start_at |-> table[n].start_at, end_at |-> table[n].end_at])
    ELSE LoadUpTo(table, user_id, n - 1)

_load_user_events(table, user_id) == LoadUpTo(table, user_id, Len(table))

\* IntervalOf with every stored row read as a point, whatever its end.
IntervalOf_PointsOnly(s, e) == [type |-> "point", s |-> s, e |-> s]

\* _parse_interval lines 44-55, given the parsed start and end (NoneDT: no end).
IntervalOf(s, e) ==
    IF e = NoneDT \/ e <= s THEN [type |-> "point", s |-> s, e |-> s]
    ELSE [type |-> "interval", s |-> s, e |-> e]

\* ("point", S, S) or ("interval", S, E); the stored text always parses.
_parse_interval(start_str, end_str) ==
    IntervalOf(fromisoformat(start_str),
               IF end_str # NULL THEN fromisoformat(end_str) ELSE NoneDT)

\* Collides with only the interval/interval cell kept.
Collides_IntervalsOnly(new_type, new_start, new_end, ex) ==
    /\ new_type = "interval"
    /\ ex.type = "interval"
    /\ ~(new_end <= ex.s \/ ex.e <= new_start)

\* Collides with a point at the very start of an interval let through.
Collides_OpenStart(new_type, new_start, new_end, ex) ==
    IF new_type = "point" /\ ex.type = "point" THEN new_start = ex.s
    ELSE IF new_type = "point" /\ ex.type = "interval"
         THEN ex.s < new_start /\ new_start < ex.e
    ELSE IF new_type = "interval" /\ ex.type = "point"
         THEN new_start <= ex.s /\ ex.s < new_end
    ELSE ~(new_end <= ex.s \/ ex.e <= new_start)

\* The collision test of one loop iteration of _find_event_conflict.
Collides(new_type, new_start, new_end, ex) ==
    IF new_type = "point" /\ ex.type = "point" THEN new_start = ex.s
    ELSE IF new_type = "point" /\ ex.type = "interval"
         THEN ex.s <= new_start /\ new_start < ex.e
    ELSE IF new_type = "interval" /\ ex.type = "point"
         THEN new_start <= ex.s /\ ex.s < new_end
    ELSE ~(new_end <= ex.s \/ ex.e <= new_start)

NoRow == [id |-> 0, title |-> <<>>, start_at |-> NULL, end_at |-> NULL]

\* FirstCollision with the loop running on to the last row that collides.
FirstCollision_Last(rows, new_type, new_start, new_end) ==
    LET hits == {i \in 1..Len(rows) :
                   Collides(new_type, new_start, new_end,
                            _parse_interval(rows[i].start_at, rows[i].end_at))}
    IN  IF hits = {} THEN NoRow
        ELSE rows[CHOOSE i \in hits : \A j \in hits : j <= i]

\* The loop of _find_event_conflict: the first row that collides, or NoRow (None).
FirstCollision(rows, new_type, new_start, new_end) ==
    LET hit == FirstPos({i \in 1..Len(rows) :
                   Collides(new_type, new_start, new_end,
                            _parse_interval(rows[i].start_at, rows[i].end_at))})
    IN  IF hit = 0 THEN NoRow ELSE rows[hit]

\* _find_event_conflict with the end of a new interval taken as part of it.
_find_event_conflict_ClosedEnd(table, user_id, new_start, new_end) ==
    IF new_end # NoneDT /\ new_end > new_start
    THEN FirstCollision(_load_user_events(table, user_id), "interval", new_start,
                        new_end + 1)
    ELSE FirstCollision(_load_user_events(table, user_id), "point", new_start, new_start)

_find_event_conflict(table, user_id, new_start, new_end) ==
    IF new_end # NoneDT /\ new_end > new_start
    THEN FirstCollision(_load_user_events(table, user_id), "interval", new_start, new_end)
    ELSE FirstCollision(_load_user_events(table, user_id), "point", new_start, new_start)

ExplicitDurAt(text, i) ==
    /\ i + 2 <= Len(text)
    /\ IsWord(text[i], "na")
    /\ text[i + 1].k = "n"
    /\ IsWordIn(text[i + 2], {"minut", "min", "chas", "chasa", "chasov"})

\* _extract_explicit_duration_minutes, given the leftmost match i.
ExplicitDurMatch(text, i) ==
    IF i = 0 THEN 0
    ELSE IF text[i + 2].w \in {"minut", "min"} THEN text[i + 1].a
    ELSE text[i + 1].a * 60

_extract_explicit_duration_minutes(text) ==
    ExplicitDurMatch(text, FirstPos({p \in 1..Len(text) : ExplicitDurAt(text, p)}))

\* A reply of handle_input or a message sent by the bot.  kind:
\*   "__CONFLICT__"  the payload __CONFLICT__|day|conf_title|conf_start|conf_end|new_title|duration
\*   "event", "task", "note"  the confirmation of an inserted record
\*   "conflict_msg"  the message build_conflict_message renders from a payload
\*   "date_accepted" the prompt for a time; "none": nothing
Reply(kind, day, ctitle, cstart, cend, title, duration, start_dt, end_dt) ==
    [kind |-> kind, day |-> day, ctitle |-> ctitle, cstart |-> cstart, cend |-> cend,
     title |-> title, duration |-> duration, start |-> start_dt, end |-> end_dt]

\* SlotOf with an explicit duration of zero taken as a duration.
SlotOf_ZeroDuration(start_dt, end_dt, explicit_dur) ==
    IF end_dt # NoneDT /\ end_dt > start_dt
    THEN [start |-> start_dt, end |-> end_dt, duration |-> end_dt - start_dt]
    ELSE IF explicit_dur >= 0
    THEN [start |-> start_dt, end |-> start_dt + explicit_dur, duration |-> explicit_dur]
    ELSE [start |-> start_dt, end |-> NoneDT, duration |-> 0]

\* handle_input lines 139-153: end and duration of the event that starts at start_dt.
SlotOf(start_dt, end_dt, explicit_dur) ==
    IF end_dt # NoneDT /\ end_dt > start_dt
    THEN [start |-> start_dt, end |-> end_dt, duration |-> end_dt - start_dt]
    ELSE IF explicit_dur > 0
    THEN [start |-> start_dt, end |-> start_dt + explicit_dur, duration |-> explicit_dur]
    ELSE [start |-> start_dt, end |-> NoneDT, duration |-> 0]

\* EventSlot with 10:00 of the current date as the base slot.
EventSlot_Today(c, text, dt) ==
    SlotOf(IF c.start = NoneDT THEN Combine(DateOfDT(dt), 10, 0) ELSE c.start,
           c.end, _extract_explicit_duration_minutes(text))

\* handle_input lines 133-153: tomorrow 10:00 when the parser found no start.
EventSlot(c, text, dt) ==
    SlotOf(IF c.start = NoneDT THEN Combine(DateOfDT(dt) + 1, 10, 0) ELSE c.start,
           c.end, _extract_explicit_duration_minutes(text))

\* handle_input lines 158-179: the payload for the colliding row.
ConflictPayload(slot, conflict, title) ==
    Reply("__CONFLICT__", date_isoformat(DateOfDT(slot.start)), conflict.title,
          isoformat(fromisoformat(conflict.start_at)),
          isoformat(fromisoformat(IF conflict.end_at # NULL THEN conflict.end_at
                                  ELSE conflict.start_at)),
          title, slot.duration, NoneDT, NoneDT)

\* [reply, item, table]: item is <<>> for None and <<row>> for the inserted Item.
Inserted(table, item, reply) ==
    [reply |-> reply, item |-> <<item>>, table |-> insert_item(table, item)]

\* EventOutcome with the record inserted before the conflict is reported.
EventOutcome_StoresOnConflict(table, user_id, td, slot, conflict) ==
    IF conflict.id # 0
    THEN [reply |-> ConflictPayload(slot, conflict, td.title), item |-> <<>>,
          table |-> insert_item(table, Item(user_id, "event", td.title, td.desc,
                                            slot.start, slot.end, NoneDT))]
    ELSE Inserted(table,
                  Item(user_id, "event", td.title, td.desc, slot.start, slot.end, NoneDT),
                  Reply("event", <<>>, <<>>, NULL, NULL, td.title, 0, slot.start, slot.end))

\* handle_input lines 156-196, given the result of the conflict check.
EventOutcome(table, user_id, td, slot, conflict) ==
    IF conflict.id # 0
    THEN [reply |-> ConflictPayload(slot, conflict, td.title), item |-> <<>>, table |-> table]
    ELSE Inserted(table,
                  Item(user_id, "event", td.title, td.desc, slot.start, slot.end, NoneDT),
                  Reply("event", <<>>, <<>>, NULL, NULL, td.title, 0, slot.start, slot.end))

HandleEvent(table, user_id, td, slot) ==
    EventOutcome(table, user_id, td, slot,
                 _find_event_conflict(table, user_id, slot.start, slot.end))

\* Dispatch with the parsed start and end kept on a task.
Dispatch_TaskKeepsStart(table, dt, user_id, text, c, td) ==
    IF c.type = "event"
    THEN HandleEvent(table, user_id, td, EventSlot(c, text, dt))
    ELSE IF c.type = "task"
    THEN Inserted(table, Item(user_id, "task", td.title, td.desc, c.start, c.end, c.due),
                  Reply("task", <<>>, <<>>, NULL, NULL, td.title, 0, c.due, NoneDT))
    ELSE Inserted(table, Item(user_id, "note", td.title, td.desc, NoneDT, NoneDT, NoneDT),
                  Reply("note", <<>>, <<>>, NULL, NULL, <<>>, 0, NoneDT, NoneDT))

\* handle_input lines 133-221, given the classification c and the title td.
Dispatch(table, dt, user_id, text, c, td) ==
    IF c.type = "event"
    THEN HandleEvent(table, user_id, td, EventSlot(c, text, dt))
    ELSE IF c.type = "task"
    THEN Inserted(table, Item(user_id, "task", td.title, td.desc, NoneDT, NoneDT, c.due),
                  Reply("task", <<>>, <<>>, NULL, NULL, td.title, 0, c.due, NoneDT))
    ELSE Inserted(table, Item(user_id, "note", td.title, td.desc, NoneDT, NoneDT, NoneDT),
                  Reply("note", <<>>, <<>>, NULL, NULL, <<>>, 0, NoneDT, NoneDT))

handle_input(table, dt, user_id, text) ==
    Dispatch(table, dt, user_id, text, classify(text, dt), split_title_desc(text))

-----------------------------------------------------------------------------
(* adapters/telegram_bot.py: the conflict-resolution dialogue.             *)
(* PENDING_CONFLICTS[u] is <<>> when u is not a key of the dict and        *)
(* <<[day, title, duration]>> when it is.                                  *)

\* Words of the vocabulary that hold the payload separator "|".
PipeWords == {"a|b"}

Pipes(text) == Cardinality({i \in 1..Len(text) : IsWordIn(text[i], PipeWords)})

\* The weekday alternatives of WEEKDAY_IN_TEXT_PATTERN.
WeekdayInTextWords ==
    {"ponedelnik", "vtornik", "sredu", "sreda", "chetverg", "pyatnitsu", "pyatnitsa",
     "subbotu", "subbota", "voskresenye", "pn", "vt", "sr", "cht", "pt", "sb", "vs"}

\* Positions covered by the non-overlapping matches of WEEKDAY_IN_TEXT_PATTERN.
RECURSIVE WeekdayMatchPositions(_, _)
WeekdayMatchPositions(text, from) ==
    IF from + 1 > Len(text) THEN {}
    ELSE IF IsWordIn(text[from], {"v", "vo"}) /\ IsWordIn(text[from + 1], WeekdayInTextWords)
         THEN {from, from + 1} \cup WeekdayMatchPositions(text, from + 2)
         ELSE WeekdayMatchPositions(text, from + 1)

\* clean_for_reschedule, given the positions the three substitutions remove.  A
\* substitution leaves the blank before the removed match, so "v$" only matches
\* a "v" that is the last word of the title itself.
CleanWithout(text, gone) ==
    OrUntitled(RemoveAt(text,
        IF text # <<>> /\ IsWord(text[Len(text)], "v") /\ Len(text) \notin gone
        THEN gone \cup {Len(text)} ELSE gone))

clean_for_reschedule(text) ==
    CleanWithout(text, WeekdayMatchPositions(text, 1)
                         \cup {i \in 1..Len(text) : text[i].k \in {"date", "time"}})

NoReply == Reply("none", <<>>, <<>>, NULL, NULL, <<>>, 0, NoneDT, NoneDT)

\* [raised, text, pending]: payload.split("|") must have exactly 7 parts for the
\* tuple assignment of line 436; with more the assignment raises ValueError.
build_conflict_message(payload) ==
    IF 7 + Pipes(payload.ctitle) + Pipes(payload.title) > 7
    THEN [raised |-> TRUE, text |-> NoReply, pending |-> <<>>]
    ELSE [raised |-> FALSE,
          text |-> [payload EXCEPT !.kind = "conflict_msg"],
          pending |-> << [day |-> payload.day,
                          title |-> clean_for_reschedule(payload.title),
                          duration |-> IF payload.duration > 0 THEN payload.duration ELSE 0] >>]

StrfOf(ymd, dt) == <<D(ymd.d, ymd.m, ymd.y), T(HourOf(dt), MinuteOf(dt))>>

\* strftime("%d.%m.%Y %H:%M") as the tokens of the synthesized text.
StrfDateTime(dt) == StrfOf(YMD(DateOfDT(dt)), dt)

DurationSuffix(duration_min) ==
    IF duration_min > 0 THEN <<W("na"), N(duration_min), W("minut")>> ELSE <<>>

\* What a handler leaves in `out`: the message handled, the branch taken, the
\* handle_input call made (hi_calls of them, on hi_text, returning hi_reply and the
\* stored Item), and the message sent to the user (answer).
Out(op, user, text, mode, branch, hi_calls, hi_text, hi_reply, answer, stored) ==
    [op |-> op, user |-> user, text |-> text, mode |-> mode, branch |-> branch,
     hi_calls |-> hi_calls, hi_text |-> hi_text, hi_reply |-> hi_reply,
     answer |-> answer, stored |-> stored]

\* Reinvoked with a conflict of the re-invocation stored as the new pending entry.
Reinvoked_KeepsConflict(user_id, text, branch, hi_text, r) ==
    [table |-> r.table,
     pending |-> IF r.reply.kind = "__CONFLICT__"
                 THEN build_conflict_message(r.reply).pending ELSE <<>>,
     out |-> Out("handle_text", user_id, text, "pending", branch, 1, hi_text,
                 r.reply, r.reply, r.item)]

\* [table, pending, out] after PENDING_CONFLICTS.pop, r = handle_input(hi_text)
\* and message.answer(reply).
Reinvoked(user_id, text, branch, hi_text, r) ==
    [table |-> r.table, pending |-> <<>>,
     out |-> Out("handle_text", user_id, text, "pending", branch, 1, hi_text,
                 r.reply, r.reply, r.item)]

\* Branches 1, 2, 4 and the failed branch 3 of the pending mode: the pending
\* entry is popped, handle_input runs on hi_text and its reply is sent as it is.
PendingReinvoke(table, dt, user_id, text, branch, hi_text) ==
    Reinvoked(user_id, text, branch, hi_text, handle_input(table, dt, user_id, hi_text))

\* SynthForTime without the stored duration.
SynthForTime_NoDuration(pending, tok) ==
    pending.title
      \o StrfDateTime(Combine(DateOfDT(fromisoformat(pending.day)), tok.a, tok.b))

\* handle_text lines 659-670: the text synthesized for a bare HH:MM reply.
SynthForTime(pending, tok) ==
    pending.title
      \o StrfDateTime(Combine(DateOfDT(fromisoformat(pending.day)), tok.a, tok.b))
      \o DurationSuffix(pending.duration)

\* PendingDate with the stored duration reset by the new day.
PendingDate_ResetsDuration(table, pending, dt, user_id, text, y) ==
    IF ValidDate(y, text[1].b, text[1].a)
    THEN [table |-> table,
          pending |-> << [pending EXCEPT !.day =
                             date_isoformat(ToOrdinal(y, text[1].b, text[1].a)),
                          !.duration = 0] >>,
          out |-> Out("handle_text", user_id, text, "pending", "date", 0, <<>>, NoReply,
                      [NoReply EXCEPT !.kind = "date_accepted"], <<>>)]
    ELSE PendingReinvoke(table, dt, user_id, text, "date_invalid", text)

\* handle_text lines 689-712: a bare date; y is the year it names.
PendingDate(table, pending, dt, user_id, text, y) ==
    IF ValidDate(y, text[1].b, text[1].a)
    THEN [table |-> table,
          pending |-> << [pending EXCEPT !.day =
                             date_isoformat(ToOrdinal(y, text[1].b, text[1].a))] >>,
          out |-> Out("handle_text", user_id, text, "pending", "date", 0, <<>>, NoReply,
                      [NoReply EXCEPT !.kind = "date_accepted"], <<>>)]
    ELSE PendingReinvoke(table, dt, user_id, text, "date_invalid", text)

\* handle_text lines 652-718: the user has a pending conflict.
PendingMode(table, pending, dt, user_id, text) ==
    IF Len(text) = 1 /\ text[1].k = "time"
    THEN PendingReinvoke(table, dt, user_id, text, "time", SynthForTime(pending, text[1]))
    ELSE IF (\E i \in 1..Len(text) : text[i].k = "date")
            /\ (\E i \in 1..Len(text) : text[i].k = "time")
    THEN PendingReinvoke(table, dt, user_id, text, "datetime",
                         pending.title \o text \o DurationSuffix(pending.duration))
    ELSE IF Len(text) = 1 /\ text[1].k = "date"
    THEN PendingDate(table, pending, dt, user_id, text,
                     DateTokenYear(text[1], YMD(DateOfDT(dt)), FALSE))
    ELSE PendingReinvoke(table, dt, user_id, text, "other", text)

\* handle_text lines 723-727, given m = build_conflict_message(reply); when that
\* raises, nothing is stored in PENDING_CONFLICTS and nothing is sent.
ConflictShown(user_id, text, r, m) ==
    [table |-> r.table, pending |-> m.pending,
     out |-> Out("handle_text", user_id, text, "idle", "idle", 1, text, r.reply, m.text,
                 r.item)]

\* handle_text lines 720-729, given r = handle_input(user_id, text).
IdleMode(user_id, text, r) ==
    IF r.reply.kind = "__CONFLICT__"
    THEN ConflictShown(user_id, text, r, build_conflict_message(r.reply))
    ELSE [table |-> r.table, pending |-> <<>>,
          out |-> Out("handle_text", user_id, text, "idle", "idle", 1, text, r.reply,
                      r.reply, r.item)]

\* [table, pending, out]: handle_text for user_id whose pending entry is pend.
handle_text(table, pend, dt, user_id, text) ==
    IF pend # <<>>
    THEN PendingMode(table, pend[1], dt, user_id, text)
    ELSE IdleMode(user_id, text, handle_input(table, dt, user_id, text))

-----------------------------------------------------------------------------
(* The state machine.                                                      *)

Users == {"u1", "u2"}

MaxItems == 2

\* The wall clock read by datetime.now(): Monday 2024-01-01 09:00.  A
\* conversation is short: the clock stands still in it.
NowChoices == {Combine(0, 9, 0)}

\* Messages the users send.  The first user sends every kind of message and
\* reply; the second user's events share the first user's slots.
InputTexts ==
    { <<W("vstrecha"), D(2, 1, NoYear), T(10, 0), W("na"), N(60), W("minut")>>,
      <<W("sozvon"), D(2, 1, NoYear), T(11, 0)>>,
      <<W("vstrecha")>>,
      <<W("kupit"), W("moloko"), W("do"), W("pt")>>,
      <<T(10, 15)>>,
      <<T(12, 0)>>,
      <<D(3, 1, NoYear)>>,
      <<D(31, 2, NoYear)>>,
      <<D(3, 1, NoYear), T(10, 0)>> }

OtherUserTexts ==
    { <<W("vstrecha"), D(2, 1, NoYear), T(10, 0), W("na"), N(60), W("minut")>> }

TextsOf(u) == IF u = "u1" THEN InputTexts ELSE OtherUserTexts

NoOut == Out("init", "", <<>>, "", "", 0, <<>>, NoReply, NoReply, <<>>)

Init ==
    /\ items = <<>>
    /\ PENDING_CONFLICTS = [u \in Users |-> <<>>]
    /\ now \in NowChoices
    /\ out = NoOut

\* A text message of user u is handled to completion.
HandleText(u, text) ==
    /\ \E r \in {handle_text(items, PENDING_CONFLICTS[u], now, u, text)} :
           /\ Len(r.table) <= MaxItems
           /\ items' = r.table
           /\ PENDING_CONFLICTS' = [PENDING_CONFLICTS EXCEPT ![u] = r.pending]
           /\ out' = r.out
    /\ UNCHANGED now

\* cb_conf_help_cancel: the "cancel" button.
Cancel(u) ==
    /\ PENDING_CONFLICTS' = [PENDING_CONFLICTS EXCEPT ![u] = <<>>]
    /\ out' = [NoOut EXCEPT !.op = "cancel"]
    /\ UNCHANGED <<items, now>>

Next ==
    \/ \E u \in Users : \E text \in TextsOf(u) : HandleText(u, text)
    \/ \E u \in Users : Cancel(u)

Spec == Init /\ [][Next]_vars

-----------------------------------------------------------------------------
(* The conflict detector on its own: the table holds event rows as any     *)
(* writer of the database may have left them, a candidate span is checked  *)
(* (CheckConflict) or checked and inserted as handle_input does for an     *)
(* event (TryInsert).                                                      *)

\* 10:00, 10:30 and 11:00 on 2024-01-02.
SpanTimes == {Combine(1, 10, 0), Combine(1, 10, 30), Combine(1, 11, 0)}

\* <<start, end>>: end is NoneDT, after start, or not after start.
Spans == SpanTimes \X (SpanTimes \cup {NoneDT})

\* The spans handle_input produces: no end, or an end after the start.
SlotSpans == {sp \in Spans : sp[2] = NoneDT \/ sp[2] > sp[1]}

SpanTitle == <<W("vstrecha")>>

SpanRow(u, sp) == Item(u, "event", SpanTitle, <<>>, sp[1], sp[2], NoneDT)

\* Rows the table starts with: any span for the first user, one interval for
\* the second.
InitRows ==
    {SpanRow("u1", sp) : sp \in Spans}
      \cup {SpanRow("u2", <<Combine(1, 10, 0), Combine(1, 11, 0)>>)}

ProbeOut(op, user, sp, found, reply, before) ==
    [op |-> op, user |-> user, start |-> sp[1], end |-> sp[2], found |-> found,
     reply |-> reply, before |-> before]

InitConflict ==
    /\ items \in {<<>>} \cup {<<row>> : row \in InitRows}
    /\ PENDING_CONFLICTS = [u \in Users |-> <<>>]
    /\ now \in NowChoices
    /\ out = ProbeOut("init", "", <<NoneDT, NoneDT>>, NoRow, NoReply, <<>>)

\* _find_event_conflict(u, start, end) is called.
CheckConflict(u, sp) ==
    /\ out' = ProbeOut("find", u, sp, _find_event_conflict(items, u, sp[1], sp[2]),
                       NoReply, items)
    /\ UNCHANGED <<items, PENDING_CONFLICTS, now>>

\* handle_input reaches its conflict check with an event of user u on span sp.
TryInsert(u, sp) ==
    /\ \E r \in {HandleEvent(items, u, [title |-> SpanTitle, desc |-> <<>>],
                             SlotOf(sp[1], sp[2], 0))} :
           /\ Len(r.table) <= MaxItems
           /\ items' = r.table
           /\ out' = ProbeOut("try", u, sp, NoRow, r.reply, items)
    /\ UNCHANGED <<PENDING_CONFLICTS, now>>

NextConflict ==
    \/ \E u \in Users, sp \in Spans : CheckConflict(u, sp)
    \/ \E u \in Users, sp \in SlotSpans : TryInsert(u, sp)

SpecConflict == InitConflict /\ [][NextConflict]_vars

-----------------------------------------------------------------------------
(* handle_input of one user called from two sessions (two processes or     *)
(* threads on the same database file).  _find_event_conflict opens its own *)
(* connection, reads and closes (service.py line 156); insert_item opens   *)
(* another, inserts and commits (line 190).  Each statement is atomic, the *)
(* pair is not: another session may run between the two.                  *)

Sessions == {1, 2}

RaceUser == "u1"

\* What a session holds: where it is, the span of its event, the row its
\* conflict check returned, the number of rows stored when it checked, and
\* the position of the row it inserted (0: none).
SessionState(pc, sp, conflict, seen, at, reply) ==
    [pc |-> pc, start |-> sp[1], end |-> sp[2], conflict |-> conflict,
     seen |-> seen, at |-> at, reply |-> reply]

InitRace ==
    /\ items \in {<<>>} \cup {<<SpanRow(RaceUser, sp)>> : sp \in SlotSpans}
    /\ PENDING_CONFLICTS = [u \in Users |-> <<>>]
    /\ now \in NowChoices
    /\ out = [c \in Sessions |->
                SessionState("start", <<NoneDT, NoneDT>>, NoRow, 0, 0, NoReply)]

\* Session c runs handle_input down to the conflict check of line 156.
RaceCheck(c, sp) ==
    /\ out[c].pc = "start"
    /\ out' = [out EXCEPT ![c] =
                 SessionState("checked", sp,
                              _find_event_conflict(items, RaceUser, sp[1], sp[2]),
                              Len(items), 0, NoReply)]
    /\ UNCHANGED <<items, PENDING_CONFLICTS, now>>

\* Session c runs lines 157-196 on the result of its check.
RaceFinish(c) ==
    /\ out[c].pc = "checked"
    /\ \E r \in {EventOutcome(items, RaceUser, [title |-> SpanTitle, desc |-> <<>>],
                              SlotOf(out[c].start, out[c].end, 0), out[c].conflict)} :
           /\ Len(r.table) <= MaxItems
           /\ items' = r.table
           /\ out' = [out EXCEPT ![c] =
                        [@ EXCEPT !.pc = "done",
                                  !.at = IF r.item # <<>> THEN Len(r.table) ELSE 0,
                                  !.reply = r.reply]]
    /\ UNCHANGED <<PENDING_CONFLICTS, now>>

NextRace ==
    \/ \E c \in Sessions, sp \in SlotSpans : RaceCheck(c, sp)
    \/ \E c \in Sessions : RaceFinish(c)

SpecRace == InitRace /\ [][NextRace]_vars

-----------------------------------------------------------------------------
(* Two text messages of one user handled as two handle_text coroutines of  *)
(* the one event loop.  A coroutine runs until it suspends; control can    *)
(* pass to the other coroutine only there.                                 *)

\* SuspendsAt were service.handle_input awaited as message.answer is.
SuspendsAt_AwaitedService(place) == place \in {"handle_input", "answer"}

\* Whether handle_text suspends at the place: its calls of
\* service.handle_input are plain calls, its message.answer calls are awaited.
SuspendsAt(place) == place = "answer"

\* A coroutine: where it stands, its message, the branch it took, the text it
\* passes to handle_input and the message it sends.
Coroutine(pc, text, mode, hi_text, answer) ==
    [pc |-> pc, text |-> text, mode |-> mode, hi_text |-> hi_text, answer |-> answer]

\* handle_text from line 647 to its call of handle_input (lines 673, 685, 703,
\* 716, 721) or, for a bare valid date, to its message.answer (line 709):
\* [pending, co], pend being PENDING_CONFLICTS' entry of the user.
AsyncEnter(pend, dt, text) ==
    IF pend = <<>>
    THEN [pending |-> pend, co |-> Coroutine("handle_input", text, "idle", text, NoReply)]
    ELSE IF Len(text) = 1 /\ text[1].k = "time"
    THEN [pending |-> <<>>,
          co |-> Coroutine("handle_input", text, "pending",
                           SynthForTime(pend[1], text[1]), NoReply)]
    ELSE IF (\E i \in 1..Len(text) : text[i].k = "date")
            /\ (\E i \in 1..Len(text) : text[i].k = "time")
    THEN [pending |-> <<>>,
          co |-> Coroutine("handle_input", text, "pending",
                           pend[1].title \o text \o DurationSuffix(pend[1].duration),
                           NoReply)]
    ELSE IF /\ Len(text) = 1
            /\ text[1].k = "date"
            /\ ValidDate(DateTokenYear(text[1], YMD(DateOfDT(dt)), FALSE),
                         text[1].b, text[1].a)
    THEN [pending |-> PendingDate(<<>>, pend[1], dt, "", text,
                                  DateTokenYear(text[1], YMD(DateOfDT(dt)), FALSE)).pending,
          co |-> Coroutine("answer", text, "pending", <<>>,
                           [NoReply EXCEPT !.kind = "date_accepted"])]
    ELSE [pending |-> <<>>, co |-> Coroutine("handle_input", text, "pending", text, NoReply)]

\* handle_text from the return of handle_input (r) to its message.answer: the
\* idle branch renders a conflict and stores the pending entry (lines 723-727),
\* the pending branches pass the reply on.  [table, pending, co]
AsyncCalled(pend, co, r) ==
    IF co.mode = "idle" /\ r.reply.kind = "__CONFLICT__"
    THEN [table |-> r.table,
          pending |-> IF build_conflict_message(r.reply).pending # <<>>
                      THEN build_conflict_message(r.reply).pending ELSE pend,
          co |-> [co EXCEPT !.pc = "answer",
                            !.answer = build_conflict_message(r.reply).text]]
    ELSE [table |-> r.table, pending |-> pend,
          co |-> [co EXCEPT !.pc = "answer", !.answer = r.reply]]

\* The coroutine entered at e, run on to the place where it suspends.
AsyncEntered(table, dt, user_id, e) ==
    IF e.co.pc = "handle_input" /\ ~SuspendsAt("handle_input")
    THEN AsyncCalled(e.pending, e.co, handle_input(table, dt, user_id, e.co.hi_text))
    ELSE [table |-> table, pending |-> e.pending, co |-> e.co]

\* Coroutine co resumed: it runs from where it stands to its next suspension.
AsyncRun(table, pend, dt, user_id, co) ==
    IF co.pc = "new" THEN AsyncEntered(table, dt, user_id, AsyncEnter(pend, dt, co.text))
    ELSE IF co.pc = "handle_input"
    THEN AsyncCalled(pend, co, handle_input(table, dt, user_id, co.hi_text))
    ELSE [table |-> table, pending |-> pend, co |-> [co EXCEPT !.pc = "done"]]

\* Storage and pending entry of the user before the two messages: nothing
\* stored; after "vstrecha"; after "vstrecha" twice (a conflict is pending).
RECURSIVE AsyncStart(_, _)
AsyncStart(dt, n) ==
    IF n = 0 THEN [table |-> <<>>, pending |-> <<>>]
    ELSE handle_text(AsyncStart(dt, n - 1).table, AsyncStart(dt, n - 1).pending, dt,
                     RaceUser, <<W("vstrecha")>>)

AsyncTexts ==
    { <<W("vstrecha")>>,
      <<W("sozvon"), D(2, 1, NoYear), T(11, 0)>>,
      <<T(10, 0)>>,
      <<T(12, 0)>>,
      <<D(3, 1, NoYear)>>,
      <<D(3, 1, NoYear), T(10, 0)>> }

InitAsync ==
    /\ now \in NowChoices
    /\ \E n \in 0..2 :
           /\ items = AsyncStart(now, n).table
           /\ PENDING_CONFLICTS =
                  [u \in Users |-> IF u = RaceUser THEN AsyncStart(now, n).pending ELSE <<>>]
           /\ \E t1, t2 \in AsyncTexts :
                  out = [start |-> [table |-> items, pending |-> PENDING_CONFLICTS[RaceUser]],
                         co |-> [c \in Sessions |->
                                   Coroutine("new", IF c = 1 THEN t1 ELSE t2, "", <<>>, NoReply)]]

\* The event loop resumes coroutine c.
AsyncResume(c) ==
    /\ out.co[c].pc # "done"
    /\ \E w \in {AsyncRun(items, PENDING_CONFLICTS[RaceUser], now, RaceUser, out.co[c])} :
           /\ Len(w.table) <= MaxItems
           /\ items' = w.table
           /\ PENDING_CONFLICTS' = [PENDING_CONFLICTS EXCEPT ![RaceUser] = w.pending]
           /\ out' = [out EXCEPT !.co[c] = w.co]
    /\ UNCHANGED now

NextAsync == \E c \in Sessions : AsyncResume(c)

SpecAsync == InitAsync /\ [][NextAsync]_vars

-----------------------------------------------------------------------------
(* adapters/telegram_bot.py: the schedule renderer.  A rendered line is    *)
(* the sequence of its tokens: the clock times of the label, then the      *)
(* cleaned title.                                                           *)

\* sorted(seq, key=...) with keys[i] the key of seq[i]: ascending and stable.
\* ORDER BY of the SQL queries is modelled with it as well (ties in rowid order).
SortedBy(seq, keys) ==
    [r \in 1..Len(seq) |->
        seq[CHOOSE i \in 1..Len(seq) :
                Cardinality({j \in 1..Len(seq) :
                                \/ keys[j] < keys[i]
                                \/ keys[j] = keys[i] /\ j < i}) = r - 1]]

\* The day plan's SELECT of events with lo <= start_at < hi; get_period_items
\* lines 340-352 run the same statement.  It has no test of status.
EventsBetween(table, user_id, lo, hi) ==
    LET rows == SelectSeq(table, LAMBDA row :
                    /\ row.user_id = user_id
                    /\ row.type = "event"
                    /\ row.start_at # NULL
                    /\ lo <= fromisoformat(row.start_at)
                    /\ fromisoformat(row.start_at) < hi)
    IN  SortedBy(rows, [i \in 1..Len(rows) |-> fromisoformat(rows[i].start_at)])

\* The day plan's SELECT of tasks with lo <= due_at < hi; get_period_items
\* lines 354-367 run the same statement.
TasksBetween(table, user_id, lo, hi) ==
    LET rows == SelectSeq(table, LAMBDA row :
                    /\ row.user_id = user_id
                    /\ row.type = "task"
                    /\ row.status = "active"
                    /\ row.due_at # NULL
                    /\ lo <= fromisoformat(row.due_at)
                    /\ fromisoformat(row.due_at) < hi)
    IN  SortedBy(rows, [i \in 1..Len(rows) |-> fromisoformat(rows[i].due_at)])

strip_weekday_phrase(text, default_label) ==
    LET clean == RemoveAt(text, WeekdayMatchPositions(text, 1))
    IN  IF clean = <<>> THEN <<W(default_label)>> ELSE clean

format_timed_line(base, start_dt, end_dt) ==
    LET b == OrUntitled(_remove_trailing_v(RemoveAt(OrUntitled(base),
                 WeekdayMatchPositions(OrUntitled(base), 1)
                   \cup {i \in 1..Len(base) : base[i].k \in {"date", "time"}})))
    IN  IF start_dt = NoneDT THEN b
        ELSE IF end_dt # NoneDT /\ end_dt > start_dt
        THEN <<T(HourOf(start_dt), MinuteOf(start_dt)), T(HourOf(end_dt), MinuteOf(end_dt))>> \o b
        ELSE <<T(HourOf(start_dt), MinuteOf(start_dt))>> \o b

\* The sort key of a timed line: its first clock time, 9999 without one.
extract_time_prefix(s) ==
    IF \E i \in 1..Len(s) : s[i].k = "time"
    THEN LET i == CHOOSE i \in 1..Len(s) :
                      s[i].k = "time" /\ \A j \in 1..(i - 1) : s[j].k # "time"
         IN  s[i].a * 60 + s[i].b
    ELSE 9999

\* split_items_for_day lines 208-224: [timed, line] of an event row.
EventEntry(row, sdt, edt) ==
    IF /\ HourOf(sdt) = 10 /\ MinuteOf(sdt) = 0
       /\ ~\E i \in 1..Len(row.title) : row.title[i].k \in {"date", "time"}
    THEN [timed |-> FALSE, line |-> strip_weekday_phrase(OrUntitled(row.title), "Zapis")]
    ELSE [timed |-> TRUE, line |-> format_timed_line(OrUntitled(row.title), sdt, edt)]

\* split_items_for_day lines 227-246: [timed, line] of a task row.
TaskEntry(title, dt) ==
    IF ~(HourOf(dt) = 23 /\ MinuteOf(dt) = 59)
    THEN [timed |-> TRUE, line |-> format_timed_line(title, dt, NoneDT)]
    ELSE IF \E i \in 1..Len(title) : title[i].k = "time"
    THEN [timed |-> TRUE, line |-> format_timed_line(title, NoneDT, NoneDT)]
    ELSE [timed |-> FALSE, line |-> strip_weekday_phrase(title, "Zadacha")]

\* SplitEntries without the tests of lines 218 and 236: a row is entered
\* whatever its day.
SplitEntries_AnyDay(events, tasks, day_start, day_end) ==
    LET ev == SelectSeq(events, LAMBDA row : row.start_at # NULL)
        tk == SelectSeq(tasks, LAMBDA row : row.due_at # NULL)
    IN  [i \in 1..Len(ev) |->
            EventEntry(ev[i], fromisoformat(ev[i].start_at),
                       IF ev[i].end_at = NULL THEN NoneDT
                       ELSE fromisoformat(ev[i].end_at))]
        \o [i \in 1..Len(tk) |->
               TaskEntry(IF tk[i].title = <<>> THEN <<W("Zadacha")>>
                         ELSE tk[i].title,
                         fromisoformat(tk[i].due_at))]

\* split_items_for_day lines 204-246: the entries [timed, line] the two loops
\* append, events first, in the order of the rows.
SplitEntries(events, tasks, day_start, day_end) ==
    LET ev == SelectSeq(events, LAMBDA row :
                  /\ row.start_at # NULL
                  /\ day_start <= fromisoformat(row.start_at)
                  /\ fromisoformat(row.start_at) < day_end)
        tk == SelectSeq(tasks, LAMBDA row :
                  /\ row.due_at # NULL
                  /\ day_start <= fromisoformat(row.due_at)
                  /\ fromisoformat(row.due_at) < day_end)
    IN  [i \in 1..Len(ev) |->
            EventEntry(ev[i], fromisoformat(ev[i].start_at),
                       IF ev[i].end_at = NULL THEN NoneDT
                       ELSE fromisoformat(ev[i].end_at))]
        \o [i \in 1..Len(tk) |->
               TaskEntry(IF tk[i].title = <<>> THEN <<W("Zadacha")>>
                         ELSE tk[i].title,
                         fromisoformat(tk[i].due_at))]

\* The timed lines sorted by their first clock time (lines 249-261), here
\* without the sort.
split_items_for_day_Unsorted(events, tasks, day_start, day_end) ==
    LET entries == SplitEntries(events, tasks, day_start, day_end)
        timed == SelectSeq(entries, LAMBDA e : e.timed)
        day_tasks == SelectSeq(entries, LAMBDA e : ~e.timed)
    IN  [timed |-> [i \in 1..Len(timed) |-> timed[i].line],
         day_tasks |-> [i \in 1..Len(day_tasks) |-> day_tasks[i].line]]

\* [timed, day_tasks]: the timed lines sorted, the lines of the all-day list.
split_items_for_day(events, tasks, day_start, day_end) ==
    LET entries == SplitEntries(events, tasks, day_start, day_end)
        timed == SelectSeq(entries, LAMBDA e : e.timed)
        day_tasks == SelectSeq(entries, LAMBDA e : ~e.timed)
    IN  [timed |-> SortedBy([i \in 1..Len(timed) |-> timed[i].line],
                            [i \in 1..Len(timed) |-> extract_time_prefix(timed[i].line)]),
         day_tasks |-> [i \in 1..Len(day_tasks) |-> day_tasks[i].line]]

\* The plan of the day that starts at day_start: [day, timed, day_tasks]; the
\* text "pusto." is the plan with both lists empty.
build_day_plan_text(table, user_id, day_start) ==
    LET s == split_items_for_day(
                 EventsBetween(table, user_id, day_start, day_start + DayMinutes),
                 TasksBetween(table, user_id, day_start, day_start + DayMinutes),
                 day_start, day_start + DayMinutes)
    IN  [day |-> DateOfDT(day_start), timed |-> s.timed, day_tasks |-> s.day_tasks]

\* None (<<>>) or <<plan>>.  "pusto." is searched in the whole text, the lines
\* of the plan included.
build_today_summary_text(table, user_id, dt) ==
    LET plan == build_day_plan_text(table, user_id, Combine(DateOfDT(dt), 0, 0))
    IN  IF \/ plan.timed = <<>> /\ plan.day_tasks = <<>>
           \/ \E i \in 1..Len(plan.timed) : HasWord(plan.timed[i], {"pusto."})
           \/ \E i \in 1..Len(plan.day_tasks) : HasWord(plan.day_tasks[i], {"pusto."})
        THEN <<>> ELSE <<plan>>

\* build_period_schedule_text with a block only for a day with timed lines.
PeriodSchedule_TimedDaysOnly(table, user_id, dt, days) ==
    LET start == Combine(DateOfDT(dt), 0, 0)
        events == EventsBetween(table, user_id, start, start + days * DayMinutes)
        tasks == TasksBetween(table, user_id, start, start + days * DayMinutes)
        block(offset) ==
            LET s == split_items_for_day(events, tasks, start + offset * DayMinutes,
                                         start + (offset + 1) * DayMinutes)
            IN  [day |-> DateOfDT(start) + offset, timed |-> s.timed,
                 day_tasks |-> s.day_tasks]
    IN  SelectSeq([n \in 1..days |-> block(n - 1)], LAMBDA b : b.timed # <<>>)

\* build_period_schedule_text lines 374-397: the schedule dict in insertion
\* order, one [day, timed, day_tasks] per day of the window with items.
PeriodSchedule(table, user_id, dt, days) ==
    LET start == Combine(DateOfDT(dt), 0, 0)
        events == EventsBetween(table, user_id, start, start + days * DayMinutes)
        tasks == TasksBetween(table, user_id, start, start + days * DayMinutes)
        block(offset) ==
            LET s == split_items_for_day(events, tasks, start + offset * DayMinutes,
                                         start + (offset + 1) * DayMinutes)
            IN  [day |-> DateOfDT(start) + offset, timed |-> s.timed,
                 day_tasks |-> s.day_tasks]
    IN  SelectSeq([n \in 1..days |-> block(n - 1)],
                  LAMBDA b : b.timed # <<>> \/ b.day_tasks # <<>>)

\* build_period_schedule_text lines 403-411: the lines of the blocks, each
\* [k, line]: the date, the timed lines, the marker of the all-day list and
\* the lines of that list.
RECURSIVE PeriodLines(_)
PeriodLines(blocks) ==
    IF blocks = <<>> THEN <<>>
    ELSE LET b == Head(blocks)
             ymd == YMD(b.day)
         IN  <<[k |-> "day", line |-> <<D(ymd.d, ymd.m, ymd.y)>>]>>
             \o [i \in 1..Len(b.timed) |-> [k |-> "timed", line |-> b.timed[i]]]
             \o (IF b.day_tasks = <<>> THEN <<>>
                 ELSE <<[k |-> "bucket", line |-> <<>>]>>
                      \o [i \in 1..Len(b.day_tasks) |->
                             [k |-> "task", line |-> b.day_tasks[i]]])
             \o PeriodLines(Tail(blocks))

\* The lines of the schedule after the header: "Net zaplanirovannyh del." or
\* the blocks in the order of their dates.
build_period_schedule_text(table, user_id, dt, days) ==
    LET schedule == PeriodSchedule(table, user_id, dt, days)
    IN  IF schedule = <<>> THEN <<[k |-> "none", line |-> <<>>]>>
        ELSE PeriodLines(SortedBy(schedule, [i \in 1..Len(schedule) |-> schedule[i].day]))

-----------------------------------------------------------------------------
(* handle_input on a database as it may be found: besides the rows         *)
(* handle_input writes, rows another writer of the same file has left (a   *)
(* closed event, a task with a start, an event without a start).           *)

StoreTexts ==
    { <<>>,
      <<W("vstrecha")>>,
      <<W("vstrecha"), W("na"), N(60), W("minut")>>,
      <<W("vstrecha"), D(2, 1, NoYear), T(10, 0), W("na"), N(60), W("minut")>>,
      <<W("vstrecha"), D(2, 1, NoYear), T(10, 0), W("na"), N(0), W("minut")>>,
      <<D(2, 1, NoYear), T(10, 0)>>,
      <<T(10, 15)>>,
      <<W("vstrecha"), W("do"), W("pt")>>,
      <<W("otchet"), W("do"), D(5, 1, NoYear)>>,
      <<W("kupit"), W("moloko")>>,
      <<W("kupit"), W("moloko"), D(2, 1, NoYear), T(10, 0)>>,
      <<W("kupit"), W("bilety"), W("na"), W("demo"), W("v"), W("pt")>>,
      <<W("kupit"), W("bilety"), T(9, 0), W("do"), D(2, 1, NoYear)>>,
      <<W("zametka")>> }

\* 2024-01-02 10:00-11:00, the slot of the stored rows.
StoreSlot == <<Combine(1, 10, 0), Combine(1, 11, 0)>>

StoreRows ==
    { SpanRow(RaceUser, StoreSlot),
      [SpanRow(RaceUser, StoreSlot) EXCEPT !.status = "done"],
      [SpanRow(RaceUser, StoreSlot) EXCEPT !.type = "task"],
      [SpanRow(RaceUser, StoreSlot) EXCEPT !.start_at = NULL],
      [SpanRow(RaceUser, <<Combine(0, 12, 0), Combine(0, 13, 0)>>) EXCEPT !.status = "done"],
      [Item(RaceUser, "task", <<W("otchet")>>, <<>>, NoneDT, NoneDT, Combine(1, 23, 59))
          EXCEPT !.status = "done"],
      Item(RaceUser, "task", <<W("otchet")>>, <<>>, NoneDT, NoneDT, Combine(1, 9, 30)),
      Item(RaceUser, "task", <<W("otchet")>>, <<>>, NoneDT, NoneDT, Combine(1, 10, 0)) }

InitStore ==
    /\ items \in {<<>>} \cup {<<row>> : row \in StoreRows}
    /\ PENDING_CONFLICTS = [u \in Users |-> <<>>]
    /\ now \in NowChoices
    /\ out = [op |-> "init", text |-> <<>>, cls |-> classify(<<>>, now),
              reply |-> NoReply, item |-> <<>>, before |-> <<>>]

\* service.handle_input(user_id, text) is called.
Submit(text) ==
    /\ \E r \in {handle_input(items, now, RaceUser, text)} :
           /\ Len(r.table) <= MaxItems
           /\ items' = r.table
           /\ out' = [op |-> "handle_input", text |-> text, cls |-> classify(text, now),
                      reply |-> r.reply, item |-> r.item, before |-> items]
    /\ UNCHANGED <<PENDING_CONFLICTS, now>>

\* Today and tomorrow.
PlanDays == {DateOfDT(dt) + k : dt \in NowChoices, k \in {0, 1}}

\* build_day_plan_text(user_id, day), as build_conflict_message (line 467) calls
\* it for the day of a conflict.
DayPlan(day) ==
    /\ out' = [op |-> "day_plan", arg |-> day,
               shown |-> <<build_day_plan_text(items, RaceUser, Combine(day, 0, 0))>>]
    /\ UNCHANGED <<items, PENDING_CONFLICTS, now>>

cmd_today ==
    /\ out' = [op |-> "cmd_today", arg |-> 0,
               shown |-> build_today_summary_text(items, RaceUser, now)]
    /\ UNCHANGED <<items, PENDING_CONFLICTS, now>>

\* cmd_week (days = 7) and cmd_month (days = 30).
cmd_period(days) ==
    /\ out' = [op |-> "cmd_period", arg |-> days,
               shown |-> build_period_schedule_text(items, RaceUser, now, days)]
    /\ UNCHANGED <<items, PENDING_CONFLICTS, now>>

NextStore ==
    \/ \E text \in StoreTexts : Submit(text)
    \/ \E day \in PlanDays : DayPlan(day)
    \/ cmd_today
    \/ \E days \in {7, 30} : cmd_period(days)

SpecStore == InitStore /\ [][NextStore]_vars

-----------------------------------------------------------------------------
(* core/parser.py as pure functions of (text, now): the clock is drawn     *)
(* from every weekday, from the first and the last minute of a day, and    *)
(* from days after which a date without a year rolls to the next year.     *)

ParseNows ==
    { Combine(0, 9, 0), Combine(1, 0, 0), Combine(2, 23, 59), Combine(3, 12, 30),
      Combine(4, 9, 0), Combine(5, 18, 45), Combine(6, 23, 59),
      Combine(ToOrdinal(2024, 2, 28), 9, 0),
      Combine(ToOrdinal(2024, 3, 15), 9, 0),
      Combine(ToOrdinal(2024, 12, 31), 23, 59) }

ParseTexts ==
    { <<>>,
      <<W("vstrecha"), W("v"), W("pt")>>,
      <<W("vstrecha"), W("vo"), W("vt"), T(18, 0)>>,
      <<W("pn"), W("sozvon")>>,
      <<W("otchet"), W("do"), W("pn")>>,
      <<W("otchet"), W("do"), W("vt")>>,
      <<W("otchet"), W("do"), W("sr")>>,
      <<W("otchet"), W("do"), W("cht")>>,
      <<W("otchet"), W("do"), W("pt")>>,
      <<W("otchet"), W("do"), W("sb")>>,
      <<W("otchet"), W("do"), W("vs")>>,
      <<W("kupit"), W("moloko"), W("v"), W("sr")>>,
      <<W("vstrecha"), W("zavtra")>>,
      <<W("vstrecha"), W("zavtra"), T(15, 0), W("na"), N(1), W("chas")>>,
      <<W("vstrecha"), W("zavtra"), W("v"), W("pt")>>,
      <<W("vstrecha"), W("zavtra"), D(5, 1, NoYear)>>,
      <<W("sozvon"), W("cherez"), N(2), W("chasa"), W("zavtra")>>,
      <<W("poslezavtra"), W("vstrecha")>>,
      <<W("vstrecha"), W("segodnya"), D(2, 1, NoYear)>>,
      <<W("vstrecha"), W("v"), W("pt"), D(10, 3, 26)>>,
      <<W("vstrecha"), D(29, 2, NoYear)>>,
      <<W("vstrecha"), D(31, 2, NoYear)>>,
      <<W("vstrecha"), W("zavtra"), D(31, 2, NoYear)>>,
      <<W("vstrecha"), W("v"), W("pt"), D(15, 13, 2024), T(10, 0)>>,
      <<W("otchet"), W("do"), D(31, 2, NoYear)>>,
      <<W("otchet"), W("do"), D(5, 1, NoYear)>>,
      <<W("vstrecha"), D(2, 1, NoYear), T(10, 0), W("na"), N(2), W("chasa")>>,
      <<W("vstrecha"), T(10, 0), W("na"), N(0), W("minut")>>,
      <<W("vstrecha"), T(10, 0), W("na"), N(2), W("chasa"), W("na"), N(30), W("minut")>>,
      <<W("sozvon"), T(10, 0), W("na"), N(45), W("minut"), W("prodlitsya"), N(2), W("chasa")>>,
      <<W("kupit"), W("moloko"), W("zavtra"), W("na"), N(2), W("chasa")>>,
      <<W("zametka"), W("na"), N(2), W("chasa")>> }

InitParse ==
    /\ items = <<>>
    /\ PENDING_CONFLICTS = [u \in Users |-> <<>>]
    /\ now \in ParseNows
    /\ out = [op |-> "init"]

\* classify(text, now) and the parsers it calls, each on the same text.
Parse(text) ==
    /\ out' = [op |-> "classify", text |-> text,
               rel |-> parse_relative(text, now),
               abs |-> parse_absolute(text, now),
               slot |-> parse_datetime(text, now),
               due |-> parse_due(text, now),
               dur |-> parse_duration(text),
               again |-> parse_duration(parse_duration(text).text),
               cls |-> classify(text, now)]
    /\ UNCHANGED <<items, PENDING_CONFLICTS, now>>

\* _next_weekday(now, target_weekday) for a value of DOW_MAP_EVENT.
ResolveWeekday(wd) ==
    /\ out' = [op |-> "_next_weekday", wd |-> wd, dt |-> _next_weekday(now, wd)]
    /\ UNCHANGED <<items, PENDING_CONFLICTS, now>>

NextParse ==
    \/ \E text \in ParseTexts : Parse(text)
    \/ \E wd \in 0..6 : ResolveWeekday(wd)

SpecParse == InitParse /\ [][NextParse]_vars

-----------------------------------------------------------------------------
(* adapters/telegram_bot.py: reminder_loop.  The coroutine runs one pass    *)
(* (a tick), sleeps 60 seconds and runs the next; handlers of incoming text *)
(* run between and, at the awaits of a pass, during the passes.  A pass     *)
(* reads the clock once (line 740).  Its SELECTs are read whole by fetchall *)
(* and its UPDATEs are committed at the end of the pass (line 828); no      *)
(* statement between the first UPDATE and the commit can raise, the sends   *)
(* being wrapped in their own try.  A row inserted during a pass is seen by *)
(* the SELECT that runs after it or by the next pass, as a row inserted     *)
(* before or after the pass is.                                             *)
(* The configuration is read from the environment (lines 34-55); the model  *)
(* fixes one configuration with the digest and both reminders switched on.  *)
(* A message handed to bot.send_message is [kind, to, id, day]: id is the   *)
(* row of a reminder (0 for a digest), day the date of a digest (0 for a    *)
(* reminder).  A send that raises is logged and the pass goes on as after a *)
(* send that succeeded (lines 757-762, 793-794, 823-824).                   *)

DAILY_DIGEST_ENABLED == TRUE

DAILY_DIGEST_HOUR == 9

DAILY_DIGEST_MINUTE == 0

EVENT_REMIND_BEFORE_MINUTES == 30

TASK_REMIND_BEFORE_MINUTES == 60

\* storage.get_all_user_ids(): SELECT DISTINCT user_id FROM items.
get_all_user_ids(table) == {table[i].user_id : i \in 1..Len(table)}

\* DigestDue with the test of line 749 left out.
DigestDue_Always(dt) == DAILY_DIGEST_ENABLED

\* Lines 743-749: the digest is switched on and the clock has reached the
\* digest time of its own day.
DigestDue(dt) ==
    /\ DAILY_DIGEST_ENABLED
    /\ dt >= Combine(DateOfDT(dt), DAILY_DIGEST_HOUR, DAILY_DIGEST_MINUTE)

\* Lines 750-753: the users the pass at dt handles in its digest part.
DigestUsers(table, sent_digest, dt) ==
    IF DigestDue(dt)
    THEN {u \in get_all_user_ids(table) : <<u, DateOfDT(dt)>> \notin sent_digest}
    ELSE {}

\* Lines 754-757: the digests handed to bot.send_message.
DigestSends(table, sent_digest, dt) ==
    {[kind |-> "digest", to |-> u, id |-> 0, day |-> DateOfDT(dt)] :
        u \in {v \in DigestUsers(table, sent_digest, dt) :
                  build_today_summary_text(table, v, dt) # <<>>}}

\* Line 763: sent_digest after the digest part.
DigestMarked(table, sent_digest, dt) ==
    sent_digest \cup {<<u, DateOfDT(dt)>> : u \in DigestUsers(table, sent_digest, dt)}

\* EventReminded without the event_notified test of the WHERE clause.
EventReminded_AnyFlag(table, i, dt) ==
    /\ table[i].type = "event"
    /\ table[i].status = "active"
    /\ table[i].start_at # NULL
    /\ fromisoformat(table[i].start_at) - dt >= 0
    /\ fromisoformat(table[i].start_at) - dt <= EVENT_REMIND_BEFORE_MINUTES

\* Lines 771-789: row i is selected by the events SELECT and passes the
\* window test.
EventReminded(table, i, dt) ==
    /\ table[i].type = "event"
    /\ table[i].status = "active"
    /\ table[i].start_at # NULL
    /\ table[i].event_notified = 0
    /\ fromisoformat(table[i].start_at) - dt >= 0
    /\ fromisoformat(table[i].start_at) - dt <= EVENT_REMIND_BEFORE_MINUTES

\* Lines 801-819: row i is selected by the tasks SELECT and passes the window
\* test.
TaskReminded(table, i, dt) ==
    /\ table[i].type = "task"
    /\ table[i].status = "active"
    /\ table[i].due_at # NULL
    /\ table[i].due_notified = 0
    /\ fromisoformat(table[i].due_at) - dt >= 0
    /\ fromisoformat(table[i].due_at) - dt <= TASK_REMIND_BEFORE_MINUTES

\* Lines 790-794 and 820-824: the reminders handed to bot.send_message.
ReminderSends(table, dt) ==
    {[kind |-> "event", to |-> table[i].user_id, id |-> i, day |-> 0] :
        i \in {j \in 1..Len(table) : EventReminded(table, j, dt)}}
    \cup
    {[kind |-> "task", to |-> table[i].user_id, id |-> i, day |-> 0] :
        i \in {j \in 1..Len(table) : TaskReminded(table, j, dt)}}

\* Lines 795-798 and 825-828: the table after the UPDATEs are committed.
Notified(table, dt) ==
    [i \in 1..Len(table) |->
        IF EventReminded(table, i, dt) THEN [table[i] EXCEPT !.event_notified = 1]
        ELSE IF TaskReminded(table, i, dt) THEN [table[i] EXCEPT !.due_notified = 1]
        ELSE table[i]]

\* One pass of the loop with the clock at dt: the messages sent, the table
\* and the dictionary sent_digest it leaves.
reminder_loop(table, sent_digest, dt) ==
    [sent |-> DigestSends(table, sent_digest, dt) \cup ReminderSends(table, dt),
     table |-> Notified(table, dt),
     sent_digest |-> DigestMarked(table, sent_digest, dt)]

-----------------------------------------------------------------------------
(* The reminder loop beside the handlers.  out.sent_digest is the loop's    *)
(* dictionary sent_digest; the other fields of out are history: the         *)
(* messages of the last pass, the table before it, and how many reminders   *)
(* each row and how many digests each user and day have got so far.         *)

\* The instants at which a pass or a handler reads the clock: around the
\* digest time and the reminder windows of two days.
RemindClock ==
    { Combine(0, 8, 29), Combine(0, 8, 30), Combine(0, 8, 59), Combine(0, 9, 0),
      Combine(0, 9, 1), Combine(0, 9, 30), Combine(0, 9, 31), Combine(0, 23, 59),
      Combine(1, 0, 0), Combine(1, 8, 59), Combine(1, 9, 0), Combine(1, 9, 30) }

RemindDays == {DateOfDT(dt) : dt \in RemindClock}

\* Rows found in the database when the loop starts.
RemindRows ==
    { Item("u1", "event", <<W("vstrecha")>>, <<>>, Combine(0, 9, 30), NoneDT, NoneDT),
      Item("u1", "event", <<W("vstrecha")>>, <<>>, Combine(0, 9, 0), Combine(0, 9, 30),
           NoneDT),
      [Item("u1", "event", <<W("vstrecha")>>, <<>>, Combine(0, 9, 30), NoneDT, NoneDT)
          EXCEPT !.status = "done"],
      [Item("u1", "event", <<W("vstrecha")>>, <<>>, Combine(0, 9, 30), NoneDT, NoneDT)
          EXCEPT !.event_notified = 1],
      Item("u1", "event", <<W("vstrecha")>>, <<>>, NoneDT, NoneDT, NoneDT),
      Item("u2", "event", <<W("vstrecha")>>, <<>>, Combine(1, 9, 30), NoneDT, NoneDT),
      Item("u1", "task", <<W("otchet")>>, <<>>, NoneDT, NoneDT, Combine(0, 9, 30)),
      Item("u2", "task", <<W("otchet")>>, <<>>, NoneDT, NoneDT, Combine(0, 23, 59)),
      [Item("u1", "task", <<W("otchet")>>, <<>>, NoneDT, NoneDT, Combine(0, 9, 30))
          EXCEPT !.status = "done"],
      [Item("u1", "task", <<W("otchet")>>, <<>>, NoneDT, NoneDT, Combine(0, 9, 30))
          EXCEPT !.due_notified = 1] }

\* Texts sent to the bot while the loop runs.
RemindTexts ==
    { <<W("vstrecha"), T(9, 30)>>,
      <<W("otchet"), W("do"), D(1, 1, NoYear)>> }

InitRemind ==
    /\ items \in {<<>>} \cup {<<row>> : row \in RemindRows}
    /\ PENDING_CONFLICTS = [u \in Users |-> <<>>]
    /\ now = Combine(0, 8, 29)
    /\ out = [op |-> "init", sent_digest |-> {}, sent |-> {}, before |-> <<>>,
              reminders |-> [i \in 1..MaxItems |-> 0],
              digests |-> [k \in Users \X RemindDays |-> 0]]

\* One pass of reminder_loop, at the clock value dt.
ReminderTick(dt) ==
    /\ dt > now
    /\ now' = dt
    /\ \E r \in {reminder_loop(items, out.sent_digest, dt)} :
           /\ items' = r.table
           /\ out' = [op |-> "tick", sent_digest |-> r.sent_digest, sent |-> r.sent,
                      before |-> items,
                      reminders |->
                          [i \in 1..MaxItems |->
                              out.reminders[i]
                              + Cardinality({m \in r.sent : m.id = i})],
                      digests |->
                          [k \in Users \X RemindDays |->
                              out.digests[k]
                              + Cardinality({m \in r.sent :
                                                /\ m.kind = "digest"
                                                /\ m.to = k[1]
                                                /\ m.day = k[2]})]]
    /\ UNCHANGED PENDING_CONFLICTS

\* service.handle_input(user_id, text) between two passes.
RemindSubmit(user_id, text) ==
    /\ \E r \in {handle_input(items, now, user_id, text)} :
           /\ Len(r.table) <= MaxItems
           /\ r.table # items
           /\ items' = r.table
           /\ out' = [out EXCEPT !.op = "handle_input", !.sent = {}, !.before = items]
    /\ UNCHANGED <<PENDING_CONFLICTS, now>>

NextRemind ==
    \/ \E dt \in RemindClock : ReminderTick(dt)
    \/ \E u \in Users, text \in RemindTexts : RemindSubmit(u, text)

SpecRemind == InitRemind /\ [][NextRemind]_vars

-----------------------------------------------------------------------------
(* Properties.  The collision rules are restated here on the stored rows   *)
(* themselves, apart from the operators that model the detector.           *)

ActiveEvent(row) ==
    row.type = "event" /\ row.status = "active" /\ row.start_at # NULL

RowStart(row) == fromisoformat(row.start_at)

\* A stored row is a point when it has no end or an end not after its start.
RowIsPoint(row) ==
    row.end_at = NULL \/ fromisoformat(row.end_at) <= RowStart(row)

RowEnd(row) == IF RowIsPoint(row) THEN RowStart(row) ELSE fromisoformat(row.end_at)

\* The four cells: point/point equal starts, point inside [start, end) of an
\* interval (either way round), interval/interval half-open overlap.
SpansCollide(p1, s1, e1, p2, s2, e2) ==
    IF p1 /\ p2 THEN s1 = s2
    ELSE IF p1 THEN s2 <= s1 /\ s1 < e2
    ELSE IF p2 THEN s1 <= s2 /\ s2 < e1
    ELSE s1 < e2 /\ s2 < e1

RowsCollide(r1, r2) ==
    SpansCollide(RowIsPoint(r1), RowStart(r1), RowEnd(r1),
                 RowIsPoint(r2), RowStart(r2), RowEnd(r2))

\* C1: after any sequence of text messages handled one at a time, no two stored
\* active events of the same user collide under the point/interval rules.
C1_NoStoredCollision ==
    \A i, j \in 1..Len(items) :
        (/\ i < j
         /\ items[i].user_id = items[j].user_id
         /\ ActiveEvent(items[i])
         /\ ActiveEvent(items[j]))
        => ~RowsCollide(items[i], items[j])

\* Two events of one user are stored, the second by the message just handled.
C1_Witness ==
    /\ out.op = "handle_text"
    /\ out.stored # <<>>
    /\ Len(items) = 2
    /\ items[1].user_id = items[2].user_id
    /\ ActiveEvent(items[1])
    /\ ActiveEvent(items[2])
    /\ items[2] = out.stored[1]

\* The candidate span of the last probe of the detector.
ProbeIsPoint == out.end = NoneDT \/ out.end <= out.start

ProbeEnd == IF ProbeIsPoint THEN out.start ELSE out.end

\* The rows of the probed table that are active events of the probing user and
\* collide with the candidate.
ProbeColliding ==
    {i \in 1..Len(out.before) :
        /\ out.before[i].user_id = out.user
        /\ ActiveEvent(out.before[i])
        /\ SpansCollide(ProbeIsPoint, out.start, ProbeEnd,
                        RowIsPoint(out.before[i]), RowStart(out.before[i]),
                        RowEnd(out.before[i]))}

\* C2: _find_event_conflict classifies the candidate and every stored event of
\* the user as a point (no end, or end <= start) or an interval, and returns the
\* first stored event, in storage order, that collides under the four-cell
\* table; it returns nothing when none collides.
C2_FirstCollidingRow ==
    out.op = "find" =>
        IF ProbeColliding = {}
        THEN out.found = NoRow
        ELSE \E i \in ProbeColliding :
                 /\ \A j \in ProbeColliding : i <= j
                 /\ out.found = [id |-> i, title |-> out.before[i].title,
                                 start_at |-> out.before[i].start_at,
                                 end_at |-> out.before[i].end_at]

\* Two stored events of the user collide with the candidate and a row is returned.
C2_Witness ==
    /\ out.op = "find"
    /\ Cardinality(ProbeColliding) = 2
    /\ out.found.id # 0

\* The user's active events in the table the last TryInsert found.
ProbeUserRows ==
    {i \in 1..Len(out.before) :
        out.before[i].user_id = out.user /\ ActiveEvent(out.before[i])}

\* Row i is an interval that ends where the candidate starts or starts where
\* the candidate ends.
BackToBack(i) ==
    /\ ~RowIsPoint(out.before[i])
    /\ \/ RowEnd(out.before[i]) = out.start
       \/ RowStart(out.before[i]) = out.end

ProbeStored ==
    /\ out.reply.kind = "event"
    /\ Len(items) = Len(out.before) + 1
    /\ SubSeq(items, 1, Len(out.before)) = out.before
    /\ items[Len(items)].user_id = out.user
    /\ items[Len(items)].type = "event"
    /\ RowStart(items[Len(items)]) = out.start
    /\ items[Len(items)].end_at # NULL
    /\ fromisoformat(items[Len(items)].end_at) = out.end

\* C3: with an interval event [s, e) stored, adding an interval event of the same
\* user that starts exactly at e, or ends exactly at s, is accepted and stored.
C3_BackToBackAccepted ==
    (/\ out.op = "try"
     /\ ~ProbeIsPoint
     /\ ProbeUserRows # {}
     /\ \A i \in ProbeUserRows : BackToBack(i))
    => ProbeStored

\* The new interval starts where the stored one ends, and is stored.
C3_Witness ==
    /\ out.op = "try"
    /\ ~ProbeIsPoint
    /\ ProbeUserRows # {}
    /\ \A i \in ProbeUserRows : BackToBack(i) /\ RowEnd(out.before[i]) = out.start
    /\ ProbeStored

\* The span of stored row A offered to handle_input the other way round: B, the
\* candidate of the last TryInsert, is stored alone and A is added.
ReverseRejected ==
    HandleEvent(<<SpanRow(out.user, <<out.start, out.end>>)>>, out.user,
                [title |-> SpanTitle, desc |-> <<>>],
                SlotOf(RowStart(out.before[1]),
                       IF out.before[1].end_at = NULL THEN NoneDT
                       ELSE fromisoformat(out.before[1].end_at), 0)).reply.kind
      = "__CONFLICT__"

NamesStoredEvent(reply, user) ==
    \E i \in 1..Len(items) :
        /\ items[i].user_id = user
        /\ ActiveEvent(items[i])
        /\ reply.ctitle = items[i].title
        /\ reply.cstart = items[i].start_at
        /\ reply.cend = (IF items[i].end_at # NULL THEN items[i].end_at
                         ELSE items[i].start_at)

\* C5: when handle_input detects a conflict for a new event, no record is
\* inserted, storage is left unchanged, and the call returns the conflict
\* descriptor (target day, colliding title, colliding start and end, new title,
\* duration) with no Item.
C5_ConflictStoresNothing ==
    [][(out'.op = "handle_text" /\ out'.hi_reply.kind = "__CONFLICT__")
       => /\ items' = items
          /\ out'.stored = <<>>
          /\ Len(out'.hi_reply.day) = 3
          /\ NamesStoredEvent(out'.hi_reply, out'.user)
          /\ out'.hi_reply.title = split_title_desc(out'.hi_text).title
          /\ out'.hi_reply.duration >= 0]_vars

\* handle_input has just reported a conflict with a stored event.
C5_Witness ==
    /\ out.op = "handle_text"
    /\ out.hi_reply.kind = "__CONFLICT__"
    /\ out.stored = <<>>
    /\ items # <<>>

\* C6 (as claimed): every conflict reported to a user, whether the user was idle
\* or awaiting a resolution, leaves the user awaiting a resolution with the
\* target day, the cleaned title and the duration of the new event captured.
C6_ConflictAlwaysPending ==
    (out.op = "handle_text" /\ out.hi_reply.kind = "__CONFLICT__")
    => PENDING_CONFLICTS[out.user] =
           << [day |-> out.hi_reply.day,
               title |-> clean_for_reschedule(out.hi_reply.title),
               duration |-> out.hi_reply.duration] >>

\* C7 (as claimed): a conflict is never sent to the user as the raw
\* __CONFLICT__|... payload; it is sent as the rendered conflict message.
C7_ConflictNeverRaw ==
    (out.op = "handle_text" /\ out.hi_reply.kind = "__CONFLICT__")
    => out.answer.kind = "conflict_msg"

\* The year a numeric date names: its own, or the current one.
NamedYear(tok) ==
    IF tok.c = NoYear THEN YearOfOrd(DateOfDT(now))
    ELSE IF tok.c < 100 THEN 2000 + tok.c ELSE tok.c

\* The message is one numeric date and that date exists.
BareValidDate(text) ==
    /\ Len(text) = 1
    /\ text[1].k = "date"
    /\ ValidDate(NamedYear(text[1]), text[1].b, text[1].a)

BareTime(text) == Len(text) = 1 /\ text[1].k = "time"

\* The step handles a text message of user u.
Handles(u) == out'.op = "handle_text" /\ out'.user = u

TimeReplyText(pending, tok) ==
    pending.title
      \o <<D(pending.day[3], pending.day[2], pending.day[1]), T(tok.a, tok.b)>>
      \o (IF pending.duration > 0
          THEN <<W("na"), N(pending.duration), W("minut")>> ELSE <<>>)

\* C9: while pending, a reply that is exactly HH:MM clears the pending state and
\* re-invokes handle_input exactly once with a text made of the stored title,
\* the stored target day at the replied time, and the stored duration.
C9_TimeReplyReinvokes ==
    [][\A u \in Users :
          (PENDING_CONFLICTS[u] # <<>> /\ Handles(u) /\ BareTime(out'.text))
          => /\ PENDING_CONFLICTS'[u] = <<>>
             /\ out'.hi_calls = 1
             /\ out'.hi_text = TimeReplyText(PENDING_CONFLICTS[u][1], out'.text[1])]_vars

\* A bare time answered a conflict whose event had a duration, and the event
\* was stored on the pending day.
C9_Witness ==
    /\ out.op = "handle_text"
    /\ out.mode = "pending"
    /\ BareTime(out.text)
    /\ out.hi_calls = 1
    /\ Len(out.hi_text) > 3
    /\ out.hi_reply.kind = "event"
    /\ out.hi_reply.end # NoneDT

\* C10: while pending, a reply that is only a valid date sets the target day
\* to that date, keeps title and duration, keeps the user pending and
\* creates no record.
C10_DateReplyKeepsPending ==
    [][\A u \in Users :
          (PENDING_CONFLICTS[u] # <<>> /\ Handles(u) /\ BareValidDate(out'.text))
          => /\ PENDING_CONFLICTS'[u] =
                    << [day |-> <<NamedYear(out'.text[1]), out'.text[1].b, out'.text[1].a>>,
                        title |-> PENDING_CONFLICTS[u][1].title,
                        duration |-> PENDING_CONFLICTS[u][1].duration] >>
             /\ items' = items
             /\ out'.hi_calls = 0
             /\ out'.stored = <<>>]_vars

\* A bare date moved a pending conflict with a duration to another day.
C10_Witness ==
    /\ out.op = "handle_text"
    /\ out.mode = "pending"
    /\ BareValidDate(out.text)
    /\ PENDING_CONFLICTS[out.user] # <<>>
    /\ PENDING_CONFLICTS[out.user][1].duration > 0
    /\ PENDING_CONFLICTS[out.user][1].day =
           <<NamedYear(out.text[1]), out.text[1].b, out.text[1].a>>

\* The message is neither a bare time, nor a date with a time, nor a bare date.
OtherReply(text) ==
    /\ ~BareTime(text)
    /\ ~((\E i \in 1..Len(text) : text[i].k = "date")
         /\ (\E i \in 1..Len(text) : text[i].k = "time"))
    /\ ~(Len(text) = 1 /\ text[1].k = "date")

\* C11 (as claimed): while a user awaits a resolution, a reply that is neither
\* a bare time, nor a date with a time, nor a bare date discards the pending
\* state and is processed exactly as the same text is for an idle user: same
\* stored record, same reply, same resulting pending state.
C11_OtherReplyAsIdle ==
    [][\A u \in Users :
          (PENDING_CONFLICTS[u] # <<>> /\ Handles(u) /\ OtherReply(out'.text))
          => \E r \in {handle_text(items, <<>>, now, u, out'.text)} :
                 /\ items' = r.table
                 /\ out'.stored = r.out.stored
                 /\ out'.answer = r.out.answer
                 /\ PENDING_CONFLICTS'[u] = r.pending]_vars

\* The rows of user u, in storage order.
OwnRows(table, u) == SelectSeq(table, LAMBDA row : row.user_id = u)

\* C12: operations of different users are independent.  A message of user u is
\* handled as it would be were u's rows the only rows of the table: same reply,
\* same stored record, same pending state; rows and pending state of the other
\* users are left as they were.  (Over an interleaving this gives each user the
\* run of the user's own messages alone.)
C12_UsersIndependent ==
    [][\A u \in Users :
          Handles(u)
          => \E r \in {handle_text(OwnRows(items, u), PENDING_CONFLICTS[u], now, u,
                                   out'.text)} :
                 /\ out' = r.out
                 /\ PENDING_CONFLICTS'[u] = r.pending
                 /\ OwnRows(items', u) = r.table
                 /\ \A v \in Users \ {u} :
                        /\ PENDING_CONFLICTS'[v] = PENDING_CONFLICTS[v]
                        /\ OwnRows(items', v) = OwnRows(items, v)]_vars

\* An event was stored on the very slot another user's stored event holds.
C12_Witness ==
    /\ out.op = "handle_text"
    /\ out.stored # <<>>
    /\ Len(items) = 2
    /\ items[1].user_id # items[2].user_id
    /\ ActiveEvent(items[1])
    /\ ActiveEvent(items[2])
    /\ RowsCollide(items[1], items[2])

\* C13: the conflict check and the insert of handle_input are not atomic.  Two
\* calls for one user in two sessions can both pass the check before either
\* inserts, and both insert, leaving two colliding active events (the witness).
\* Colliding events arise in no other way: whenever two stored events of the
\* user collide, the later one was inserted by a session whose check ran
\* before the earlier one was stored.
C13_CollisionOnlyByStaleCheck ==
    \A i, j \in 1..Len(items) :
        (/\ i < j
         /\ items[i].user_id = items[j].user_id
         /\ ActiveEvent(items[i])
         /\ ActiveEvent(items[j])
         /\ RowsCollide(items[i], items[j]))
        => \E c \in Sessions : out[c].at = j /\ out[c].seen < i

\* Both sessions passed their check on the empty table, both inserted, and the
\* two rows collide.
C13_Witness ==
    /\ \A c \in Sessions : out[c].pc = "done" /\ out[c].seen = 0 /\ out[c].at # 0
    /\ Len(items) = 2
    /\ ActiveEvent(items[1])
    /\ ActiveEvent(items[2])
    /\ RowsCollide(items[1], items[2])

\* Message a handled alone and then message b handled alone, from the state
\* before the two, give the storage, the pending entry and the two replies
\* of the present state.
SerialOutcome(a, b) ==
    \E r1 \in {handle_text(out.start.table, out.start.pending, now, RaceUser,
                           out.co[a].text)} :
      \E r2 \in {handle_text(r1.table, r1.pending, now, RaceUser, out.co[b].text)} :
        /\ items = r2.table
        /\ PENDING_CONFLICTS[RaceUser] = r2.pending
        /\ out.co[a].answer = r1.out.answer
        /\ out.co[b].answer = r2.out.answer

BothHandled == \A c \in Sessions : out.co[c].pc \in {"answer", "done"}

C15_EventEndAfterStart ==
    (out.op = "handle_input" /\ out.item # <<>> /\ out.item[1].type = "event")
    => /\ out.item[1].start_at # NULL
       /\ \/ out.item[1].end_at = NULL
          \/ fromisoformat(out.item[1].end_at) > fromisoformat(out.item[1].start_at)

\* An event whose text gives a duration of 0 minutes was stored with an end.
C15_Witness ==
    /\ out.op = "handle_input"
    /\ out.item # <<>>
    /\ out.item[1].type = "event"
    /\ \E i \in 1..Len(out.text) : out.text[i] = N(0)
    /\ out.item[1].end_at # NULL

\* C16: in every record stored by handle_input, start_at and end_at are set
\* only on an event and due_at only on a task; a note has no temporal field,
\* and a task has no start or end even when its text held a date or a time.
C16_TemporalFieldsByKind ==
    (out.op = "handle_input" /\ out.item # <<>>)
    => /\ out.item[1].type \in {"event", "task", "note"}
       /\ out.item[1].type # "event"
              => (out.item[1].start_at = NULL /\ out.item[1].end_at = NULL)
       /\ out.item[1].type # "task" => out.item[1].due_at = NULL

\* A task whose text holds a date and a time was stored.
C16_Witness ==
    /\ out.op = "handle_input"
    /\ out.item # <<>>
    /\ out.item[1].type = "task"
    /\ \E i \in 1..Len(out.text) : out.text[i].k = "date"
    /\ \E i \in 1..Len(out.text) : out.text[i].k = "time"
    /\ out.cls.start # NoneDT

\* C17: handle_input never updates or deletes a record: after every call all
\* records stored before it are unchanged (kind, title, times, status, both
\* notification flags) and at most one record is added.
C17_StoredRowsUntouched ==
    [][out'.op = "handle_input"
       => /\ Len(items') \in {Len(items), Len(items) + 1}
          /\ SubSeq(items', 1, Len(items)) = items]_vars

\* A record was added to a table that held one.
C17_Witness ==
    /\ out.op = "handle_input"
    /\ out.before # <<>>
    /\ Len(items) = Len(out.before) + 1
    /\ out.item = <<items[Len(items)]>>

\* C18: only active events take part in conflict checks: a stored record whose
\* status is not active, whose kind is not event or whose start_at is null
\* never causes handle_input to report a conflict.  The reply is the reply
\* given were those records not stored.
C18_OnlyActiveEventsConflict ==
    out.op = "handle_input"
    => out.reply = handle_input(SelectSeq(out.before, ActiveEvent), now, RaceUser,
                                out.text).reply

\* An event was stored on the start of a stored event that is not active.
C18_Witness ==
    /\ out.op = "handle_input"
    /\ out.reply.kind = "event"
    /\ \E i \in 1..Len(out.before) :
           /\ out.before[i].type = "event"
           /\ out.before[i].status # "active"
           /\ out.before[i].start_at = out.item[1].start_at

\* C19: the schedule renderer reads only active records: an event or task whose
\* status is not active never appears in the day plan, the today summary or
\* the week or month schedule.  What is shown is what is shown with only the
\* active records stored.
C19_RendersOnlyActive ==
    LET active == SelectSeq(items, LAMBDA row : row.status = "active")
    IN  /\ out.op = "day_plan"
            => out.shown = <<build_day_plan_text(active, RaceUser, Combine(out.arg, 0, 0))>>
        /\ out.op = "cmd_today"
            => out.shown = build_today_summary_text(active, RaceUser, now)
        /\ out.op = "cmd_period"
            => out.shown = build_period_schedule_text(active, RaceUser, now, out.arg)

\* C20: classify picks the kind by first match: task if a task verb is present
\* or a deadline was extracted; otherwise event if an event keyword matched or
\* a start time was resolved; otherwise note.  Every input gets exactly one
\* kind, and empty text is a note with no temporal field.
C20_KindByFirstMatch ==
    out.op = "handle_input"
    => /\ out.cls.type =
              IF HasWord(out.text, TASK_KEYWORDS) \/ out.cls.due # NoneDT THEN "task"
              ELSE IF HasWord(out.text, EVENT_KEYWORDS) \/ out.cls.start # NoneDT
                   THEN "event"
              ELSE "note"
       /\ out.text = <<>>
              => /\ out.cls.type = "note"
                 /\ out.cls.start = NoneDT
                 /\ out.cls.end = NoneDT
                 /\ out.cls.due = NoneDT

\* A text with an event keyword and a deadline was classified as a task, and
\* the record stored is a task.
C20_Witness ==
    /\ out.op = "handle_input"
    /\ HasWord(out.text, EVENT_KEYWORDS)
    /\ ~HasWord(out.text, TASK_KEYWORDS)
    /\ out.cls.due # NoneDT
    /\ out.cls.type = "task"
    /\ out.item # <<>>
    /\ out.item[1].type = "task"


\* C22: event weekday resolution never returns the date of now: for every now
\* and target weekday, _next_weekday returns the same time of day 1 to 7 days
\* after now, on the target weekday, and now + 7 days when now is on that
\* weekday.  parse_absolute resolves "v <weekday>" to that date.
C22_NextWeekdayStrictlyAhead ==
    /\ out.op = "_next_weekday"
        => /\ out.dt - now \in {k * DayMinutes : k \in 1..7}
           /\ Weekday(DateOfDT(out.dt)) = out.wd
           /\ Weekday(DateOfDT(now)) = out.wd => out.dt = now + 7 * DayMinutes
    /\ (out.op = "classify" /\ out.text = <<W("vstrecha"), W("v"), W("pt")>>)
        => /\ DateOfDT(out.abs.start) - DateOfDT(now) \in 1..7
           /\ Weekday(DateOfDT(out.abs.start)) = 4

\* now is on the target weekday and the date a week later was returned.
C22_Witness ==
    /\ out.op = "_next_weekday"
    /\ Weekday(DateOfDT(now)) = out.wd
    /\ out.dt = now + 7 * DayMinutes

\* C21: for an input classified as event with a resolved start and a duration
\* phrase, the returned end is the start plus the parsed duration, in place of
\* the default end 30 minutes after the start; for a task or a note the
\* duration phrase does not change the returned end.
C21_DurationSetsEnd ==
    out.op = "classify"
    => /\ (out.cls.type = "event" /\ out.cls.start # NoneDT /\ out.dur.dur # NoneDT)
            => out.cls.end = out.cls.start + out.dur.dur
       /\ out.cls.type \in {"task", "note"} => out.cls.end = out.slot.end

\* C23: a weekday in a deadline phrase resolves to its next occurrence strictly
\* after now: for every now and weekday, parse_due returns 23:59 of a date 1 to
\* 7 days after the date of now, and of now + 7 days when now is on that weekday.
C23_DueWeekdayStrictlyAhead ==
    (out.op = "classify" /\ Len(out.text) = 3 /\ out.text[2] = W("do")
        /\ out.text[3].k = "w")
    => /\ out.due # NoneDT
       /\ Weekday(DateOfDT(out.due)) = DOW_MAP_DUE(out.text[3].w)
       /\ DateOfDT(out.due) - DateOfDT(now) \in 1..7
       /\ Weekday(DateOfDT(now)) = DOW_MAP_DUE(out.text[3].w)
            => DateOfDT(out.due) = DateOfDT(now) + 7

\* C24: every deadline produced by classification is 23:59 of its day, so every
\* task stored by handle_input has no due_at or a due_at at 23:59, the deadline
\* synthesized from a task verb with "v <weekday>" included.
C24_DeadlineAtEndOfDay ==
    out.op = "handle_input"
    => /\ out.cls.due # NoneDT
            => (HourOf(out.cls.due) = 23 /\ MinuteOf(out.cls.due) = 59)
       /\ (out.item # <<>> /\ out.item[1].type = "task" /\ out.item[1].due_at # NULL)
            => /\ out.item[1].due_at[4] = 23
               /\ out.item[1].due_at[5] = 59
               /\ fromisoformat(out.item[1].due_at) = out.cls.due

\* A task with a task verb, "v <weekday>" and no deadline phrase was stored
\* with a deadline.
C24_Witness ==
    /\ out.op = "handle_input"
    /\ out.item # <<>>
    /\ out.item[1].type = "task"
    /\ HasWord(out.text, TASK_KEYWORDS)
    /\ ~HasWord(out.text, {"do"})
    /\ out.item[1].due_at # NULL

\* The text holds the word "zavtra" (and not "poslezavtra").
SaysTomorrow == out.op = "classify" /\ HasWord(out.text, {"zavtra"})
                    /\ ~HasWord(out.text, {"poslezavtra"})

\* C25 as stated: for all texts containing the word for "tomorrow", the date
\* resolved by parse_datetime is the date of now plus one day, whatever the time
\* of day of now.
C25_TomorrowAlways ==
    SaysTomorrow
    => (out.slot.start # NoneDT /\ DateOfDT(out.slot.start) = DateOfDT(now) + 1)

\* C25: for all texts containing the word for "tomorrow" and no relative
\* offset, no weekday phrase and no numeric date, the date resolved by
\* parse_datetime is the date of now plus one day, whatever the time of day.
C25_TomorrowAlone ==
    (/\ SaysTomorrow
     /\ ~HasWord(out.text, {"cherez"})
     /\ ~\E p \in 1..Len(out.text) : DowInAt(out.text, p)
     /\ ~IsWordIn(out.text[1], EventDowWords)
     /\ ~\E p \in 1..Len(out.text) : out.text[p].k = "date")
    => (out.slot.start # NoneDT /\ DateOfDT(out.slot.start) = DateOfDT(now) + 1)

\* In the last minute of a year, "tomorrow" alone resolved to the next day.
C25_Witness ==
    /\ SaysTomorrow
    /\ out.text = <<W("vstrecha"), W("zavtra")>>
    /\ HourOf(now) = 23 /\ MinuteOf(now) = 59
    /\ YMD(DateOfDT(now)).m = 12
    /\ out.slot.start = Combine(DateOfDT(now) + 1, 10, 0)

\* The first numeric date of the text parsed, [d, m, y]: y is the year given
\* (two digits are 2000 + value), else the year of now, plus one when
\* (month, day) is earlier than that of now.
FirstNumericDate ==
    LET i == CHOOSE p \in 1..Len(out.text) :
                 out.text[p].k = "date" /\ \A q \in 1..(p - 1) : out.text[q].k # "date"
        tok == out.text[i]
        today == YMD(DateOfDT(now))
    IN  [d |-> tok.a, m |-> tok.b,
         y |-> IF tok.c # NoYear THEN (IF tok.c < 100 THEN 2000 + tok.c ELSE tok.c)
               ELSE IF tok.b < today.m \/ (tok.b = today.m /\ tok.a < today.d)
                    THEN today.y + 1 ELSE today.y]

\* C26: in parse_absolute a valid numeric date overrides a date resolved from a
\* same-day or next-day word or a weekday in the same text; without a year the
\* year of now is used, rolled forward one year if (month, day) is earlier than
\* (month, day) of now.
C26_NumericDateOverrides ==
    (/\ out.op = "classify"
     /\ \E p \in 1..Len(out.text) : out.text[p].k = "date"
     /\ ValidDate(FirstNumericDate.y, FirstNumericDate.m, FirstNumericDate.d))
    => /\ out.abs.start # NoneDT
       /\ DateOfDT(out.abs.start)
            = ToOrdinal(FirstNumericDate.y, FirstNumericDate.m, FirstNumericDate.d)

\* A date without a year, in a text that says "tomorrow", resolved to that date
\* in the year after now.
C26_Witness ==
    /\ out.op = "classify"
    /\ HasWord(out.text, {"zavtra"})
    /\ \E p \in 1..Len(out.text) : out.text[p] = D(5, 1, NoYear)
    /\ YMD(DateOfDT(out.abs.start)) = [y |-> YMD(DateOfDT(now)).y + 1, m |-> 1, d |-> 5]

\* C27 as stated: for every text, parse_duration applied to the stripped text
\* that parse_duration returned finds no duration and returns the same text.
C27_AlwaysIdempotent ==
    out.op = "classify" => out.again = [dur |-> NoneDT, text |-> out.dur.text]

\* C27: for every text with at most one lead word of a duration phrase,
\* parse_duration applied to the stripped text that parse_duration returned
\* finds no duration and returns the same text.
C27_IdempotentOnOnePhrase ==
    (/\ out.op = "classify"
     /\ Cardinality({p \in 1..Len(out.text) : IsWordIn(out.text[p], DurLeadWords)}) <= 1)
    => out.again = [dur |-> NoneDT, text |-> out.dur.text]

\* A duration phrase was found and stripped, and the second call found none.
C27_Witness ==
    /\ out.op = "classify"
    /\ out.dur.dur # NoneDT
    /\ Len(out.dur.text) < Len(out.text)
    /\ out.again = [dur |-> NoneDT, text |-> out.dur.text]

\* The text parsed with a plain word in place of each numeric date.
WithoutNumericDates ==
    [p \in 1..Len(out.text) |->
        IF out.text[p].k = "date" THEN W("x") ELSE out.text[p]]

\* C28: a numeric date with an invalid day or month never raises: parse_absolute
\* treats it as not matched, keeping a date resolved earlier or none, parse_due
\* returns no deadline, and classify completes with the kind of the next tier.
\* Each result is the result for the text without the date.
C28_InvalidDateNotMatched ==
    (/\ out.op = "classify"
     /\ \E p \in 1..Len(out.text) : out.text[p].k = "date"
     /\ ~ValidDate(FirstNumericDate.y, FirstNumericDate.m, FirstNumericDate.d))
    => /\ out.abs = parse_absolute(WithoutNumericDates, now)
       /\ out.due = NoneDT
       /\ out.cls = classify(WithoutNumericDates, now)
       /\ out.cls.type \in {"task", "event", "note"}

\* 31.02 after "tomorrow" left the date of tomorrow, and 31.02 as the only
\* date-like part of the text would leave none.
C28_Witness ==
    /\ out.op = "classify"
    /\ out.text = <<W("vstrecha"), W("zavtra"), D(31, 2, NoYear)>>
    /\ out.abs.start = Combine(DateOfDT(now) + 1, 10, 0)
    /\ parse_absolute(<<W("vstrecha"), D(31, 2, NoYear)>>, now).start = NoneDT
    /\ classify(<<W("otchet"), W("do"), D(31, 2, NoYear)>>, now).type = "note"

\* The first clock time in a rendered line, in minutes of the day; -1 when the
\* line holds none.
FirstClock(line) ==
    LET S == {p \in 1..Len(line) : line[p].k = "time"}
    IN  IF S = {} THEN -1
        ELSE LET p == CHOOSE p \in S : \A q \in S : p <= q
             IN  line[p].a * 60 + line[p].b

\* The timed lines of the day shown by the day plan or the today summary, in
\* the order in which split_items_for_day formats them: events by start, then
\* tasks by deadline.
ShownDayFormatted ==
    LET day_start == IF out.op = "day_plan" THEN Combine(out.arg, 0, 0)
                     ELSE Combine(DateOfDT(now), 0, 0)
        entries == SplitEntries(
                       EventsBetween(items, RaceUser, day_start, day_start + DayMinutes),
                       TasksBetween(items, RaceUser, day_start, day_start + DayMinutes),
                       day_start, day_start + DayMinutes)
        timed == SelectSeq(entries, LAMBDA e : e.timed)
    IN  [i \in 1..Len(timed) |-> timed[i].line]

\* C29: in a rendered day the timed lines are the formatted lines in ascending
\* order of the first clock time found in each line; lines without a clock time
\* come after all lines with one, and lines with equal keys keep their order.
C29_TimedLinesSorted ==
    (out.op \in {"day_plan", "cmd_today"} /\ out.shown # <<>>)
    => LET inp == ShownDayFormatted
           outp == out.shown[1].timed
       IN  /\ Len(outp) = Len(inp)
           /\ \E f \in Permutations(1..Len(inp)) :
                  /\ \A i \in 1..Len(inp) : outp[i] = inp[f[i]]
                  /\ \A i, j \in 1..Len(inp) :
                         i < j
                         => /\ FirstClock(outp[j]) # -1
                                => /\ FirstClock(outp[i]) # -1
                                   /\ FirstClock(outp[i]) <= FirstClock(outp[j])
                            /\ FirstClock(outp[i]) = FirstClock(outp[j]) => f[i] < f[j]

\* A task line with an earlier clock time was moved before an event line.
C29_Witness ==
    /\ out.op = "day_plan"
    /\ Len(out.shown[1].timed) = 2
    /\ ShownDayFormatted = <<out.shown[1].timed[2], out.shown[1].timed[1]>>
    /\ FirstClock(out.shown[1].timed[1]) < FirstClock(out.shown[1].timed[2])

\* Positions of the date lines of the schedule shown.
ShownDayHeads == {p \in 1..Len(out.shown) : out.shown[p].k = "day"}

\* The day number of the date line at position p.
ShownDay(p) ==
    ToOrdinal(out.shown[p].line[1].c, out.shown[p].line[1].b, out.shown[p].line[1].a)

\* The days of the window of the schedule shown on which a selected event
\* starts or a selected task is due.
WindowDaysWithItems ==
    LET start == Combine(DateOfDT(now), 0, 0)
        ev == EventsBetween(items, RaceUser, start, start + out.arg * DayMinutes)
        tk == TasksBetween(items, RaceUser, start, start + out.arg * DayMinutes)
    IN  {DateOfDT(fromisoformat(ev[i].start_at)) : i \in 1..Len(ev)}
        \cup {DateOfDT(fromisoformat(tk[i].due_at)) : i \in 1..Len(tk)}

\* C30: the week or month schedule has a block for exactly the days of the
\* window with at least one item, in the order of the days, and in each block
\* all timed lines come before the all-day list.
C30_PeriodBlocks ==
    out.op = "cmd_period"
    => /\ {ShownDay(p) : p \in ShownDayHeads} = WindowDaysWithItems
       /\ \A p, q \in ShownDayHeads : p < q => ShownDay(p) < ShownDay(q)
       /\ WindowDaysWithItems = {} <=> out.shown = <<[k |-> "none", line |-> <<>>]>>
       /\ \A p \in ShownDayHeads :
              p < Len(out.shown) /\ out.shown[p + 1].k \in {"timed", "bucket"}
       /\ \A p, q \in 1..Len(out.shown) :
              (p < q /\ out.shown[p].k \in {"bucket", "task"} /\ out.shown[q].k = "timed")
              => \E h \in ShownDayHeads : p < h /\ h < q

\* Two blocks were shown, the record stored first on the later day, with a
\* timed line in one block and an all-day list in the other.
C30_Witness ==
    /\ out.op = "cmd_period"
    /\ Cardinality(ShownDayHeads) = 2
    /\ \E p \in 1..Len(out.shown) : out.shown[p].k = "timed"
    /\ \E p \in 1..Len(out.shown) : out.shown[p].k = "bucket"
    /\ Len(items) = 2
    /\ items[1].type = "task"
    /\ out.shown[2].k = "timed"

\* The row a reminder of the last pass was sent for, as the pass found it.
RemindedRow(m) == out.before[m.id]

\* The minutes from the clock of the last pass to the start of an event
\* reminder's row or the deadline of a task reminder's row.
RemindedAhead(m) ==
    IF m.kind = "event" THEN fromisoformat(RemindedRow(m).start_at) - now
    ELSE fromisoformat(RemindedRow(m).due_at) - now

\* C31: over any sequence of passes of the reminder loop no row gets more
\* than one reminder; a pass sends a reminder only for an active row of the
\* reminder's kind whose notification flag was unset and whose start (event)
\* or deadline (task) lies between 0 and the look-ahead minutes after the
\* clock of the pass, and the pass leaves the flag of that row set.
C31_ReminderOncePerItem ==
    /\ \A i \in 1..MaxItems : out.reminders[i] <= 1
    /\ out.op = "tick"
       => \A m \in out.sent :
              m.kind # "digest"
              => /\ RemindedRow(m).type = m.kind
                 /\ RemindedRow(m).status = "active"
                 /\ m.to = RemindedRow(m).user_id
                 /\ m.kind = "event"
                    => /\ RemindedRow(m).start_at # NULL
                       /\ RemindedRow(m).event_notified = 0
                       /\ items[m.id].event_notified = 1
                       /\ RemindedAhead(m) \in 0..EVENT_REMIND_BEFORE_MINUTES
                 /\ m.kind = "task"
                    => /\ RemindedRow(m).due_at # NULL
                       /\ RemindedRow(m).due_notified = 0
                       /\ items[m.id].due_notified = 1
                       /\ RemindedAhead(m) \in 0..TASK_REMIND_BEFORE_MINUTES

\* A pass finds an active event that got its reminder in an earlier pass
\* still inside the look-ahead window, and sends nothing for it.
C31_Witness ==
    /\ out.op = "tick"
    /\ \E i \in 1..Len(items) :
           /\ out.reminders[i] = 1
           /\ \A m \in out.sent : m.id # i
           /\ items[i].type = "event"
           /\ items[i].status = "active"
           /\ out.before[i].event_notified = 1
           /\ fromisoformat(items[i].start_at) - now \in 0..EVENT_REMIND_BEFORE_MINUTES

\* C32: a user gets the digest of a calendar day at most once, and a digest
\* is sent only by a pass whose clock is on that day at or after the digest
\* time.
C32_DigestOncePerDay ==
    /\ \A k \in Users \X RemindDays : out.digests[k] <= 1
    /\ out.op = "tick"
       => \A m \in out.sent :
              m.kind = "digest"
              => /\ m.day = DateOfDT(now)
                 /\ now >= Combine(m.day, DAILY_DIGEST_HOUR, DAILY_DIGEST_MINUTE)

\* A pass after the digest time finds a user who has got today's digest
\* and still has a plan for today, and sends no second digest.
C32_Witness ==
    /\ out.op = "tick"
    /\ now >= Combine(DateOfDT(now), DAILY_DIGEST_HOUR, DAILY_DIGEST_MINUTE)
    /\ \E u \in Users :
           /\ out.digests[<<u, DateOfDT(now)>>] = 1
           /\ \A m \in out.sent : ~(m.kind = "digest" /\ m.to = u)
           /\ build_today_summary_text(items, u, now) # <<>>

\* The step completes a pending resolution of user u by a bare HH:MM reply
\* that handle_input answers by storing the event.
TimeReplyStored(u) ==
    /\ PENDING_CONFLICTS[u] # <<>>
    /\ Handles(u)
    /\ BareTime(out'.text)
    /\ out'.hi_reply.kind = "event"
    /\ Len(items') = Len(items) + 1

\* C33: when a bare HH:MM reply completes a pending resolution and the event
\* is stored, the stored event starts on the pending day at the replied time;
\* its end is its start plus the pending duration when that is positive, and
\* it has no end when the pending duration is 0.
C33_TimeReplyKeepsDuration ==
    [][\A u \in Users :
          TimeReplyStored(u)
          => LET pending == PENDING_CONFLICTS[u][1]
                 row == items'[Len(items')]
             IN  /\ row.type = "event"
                 /\ row.user_id = u
                 /\ row.start_at = pending.day \o <<out'.text[1].a, out'.text[1].b>>
                 /\ pending.duration > 0
                    => /\ row.end_at # NULL
                       /\ fromisoformat(row.end_at)
                            = fromisoformat(row.start_at) + pending.duration
                 /\ pending.duration = 0 => row.end_at = NULL]_vars

\* The rows of the table that the renderer's two SELECTs hand to
\* split_items_for_day and whose start (event) or deadline (task) is on the
\* given day.
RowsOfDay(day) ==
    {i \in 1..Len(items) :
        /\ items[i].user_id = RaceUser
        /\ \/ /\ items[i].type = "event"
              /\ items[i].start_at # NULL
              /\ DateOfDT(fromisoformat(items[i].start_at)) = day
           \/ /\ items[i].type = "task"
              /\ items[i].status = "active"
              /\ items[i].due_at # NULL
              /\ DateOfDT(fromisoformat(items[i].due_at)) = day}

\* The timed lines and all-day entries of the block whose date line is at
\* position p of the schedule shown.
BlockEntries(p) ==
    {q \in (p + 1)..Len(out.shown) :
        /\ out.shown[q].k \in {"timed", "task"}
        /\ \A h \in ShownDayHeads : ~(p < h /\ h < q)}

\* The number of timed lines and all-day entries the schedule shown has for
\* the given day.
ShownEntriesOfDay(day) ==
    IF \E p \in ShownDayHeads : ShownDay(p) = day
    THEN Cardinality(BlockEntries(CHOOSE p \in ShownDayHeads : ShownDay(p) = day))
    ELSE 0

\* C34: for a day, split_items_for_day returns as many timed lines and all-day
\* entries together as it is given events that start and tasks that are due
\* inside the day, whether it is given the rows of that day only (day plan,
\* today's summary) or the rows of a whole week or month.
C34_SplitCountsDayItems ==
    /\ out.op = "day_plan"
       => Len(out.shown[1].timed) + Len(out.shown[1].day_tasks)
            = Cardinality(RowsOfDay(out.arg))
    /\ (out.op = "cmd_today" /\ out.shown # <<>>)
       => Len(out.shown[1].timed) + Len(out.shown[1].day_tasks)
            = Cardinality(RowsOfDay(DateOfDT(now)))
    /\ out.op = "cmd_period"
       => \A n \in 0..(out.arg - 1) :
              ShownEntriesOfDay(DateOfDT(now) + n)
                = Cardinality(RowsOfDay(DateOfDT(now) + n))

\* A week or month was shown for a table with one row on each of two days,
\* one of them a timed line and the other an all-day entry: each call of
\* split_items_for_day was given a row of another day and left it out.
C34_Witness ==
    /\ out.op = "cmd_period"
    /\ \E p, q \in ShownDayHeads :
           /\ p < q
           /\ Cardinality(BlockEntries(p)) = 1
           /\ Cardinality(BlockEntries(q)) = 1
           /\ Cardinality(RowsOfDay(ShownDay(p))) = 1
           /\ Cardinality(RowsOfDay(ShownDay(q))) = 1
           /\ \E a \in BlockEntries(p) \cup BlockEntries(q) : out.shown[a].k = "timed"
           /\ \E a \in BlockEntries(p) \cup BlockEntries(q) : out.shown[a].k = "task"

\* handle_input was called on a text classified as an event without a start.
UnresolvedEvent ==
    /\ out.op = "handle_input"
    /\ out.cls.type = "event"
    /\ out.cls.start = NoneDT

\* 10:00 of the day after the current date.
TomorrowAtTen == Combine(DateOfDT(now) + 1, 10, 0)

\* A row the table held before the call is an active event of the caller that
\* collides with the base slot: a point at 10:00 tomorrow, or the interval
\* of the explicit duration from there.
BaseSlotTaken ==
    \E i \in 1..Len(out.before) :
        /\ out.before[i].user_id = RaceUser
        /\ ActiveEvent(out.before[i])
        /\ SpansCollide(_extract_explicit_duration_minutes(out.text) = 0,
                        TomorrowAtTen,
                        TomorrowAtTen + _extract_explicit_duration_minutes(out.text),
                        RowIsPoint(out.before[i]), RowStart(out.before[i]),
                        RowEnd(out.before[i]))

\* C35: an event for which no start was resolved is placed at 10:00 of the
\* day after the current date, without an end unless the text has an explicit
\* duration (then the end is the start plus that duration); it is stored only
\* if no active event of the user collides with that slot, and answered by a
\* conflict with nothing stored otherwise.
C35_UnresolvedEventAtBaseSlot ==
    UnresolvedEvent
    => IF BaseSlotTaken
       THEN /\ out.reply.kind = "__CONFLICT__"
            /\ out.item = <<>>
            /\ items = out.before
       ELSE /\ out.reply.kind = "event"
            /\ Len(items) = Len(out.before) + 1
            /\ SubSeq(items, 1, Len(out.before)) = out.before
            /\ out.item = <<items[Len(items)]>>
            /\ items[Len(items)].type = "event"
            /\ items[Len(items)].start_at = isoformat(TomorrowAtTen)
            /\ items[Len(items)].end_at =
                   IF _extract_explicit_duration_minutes(out.text) = 0 THEN NULL
                   ELSE isoformat(TomorrowAtTen
                                  + _extract_explicit_duration_minutes(out.text))

\* An event without a start and with an explicit duration was stored at the
\* base slot beside a closed event that holds the same slot.
C35_Witness ==
    /\ UnresolvedEvent
    /\ _extract_explicit_duration_minutes(out.text) > 0
    /\ out.reply.kind = "event"
    /\ Len(items) = 2
    /\ items[1].type = "event"
    /\ items[1].status = "done"
    /\ RowStart(items[1]) = TomorrowAtTen
    /\ items[2].end_at # NULL
=============================================================================
